---- MODULE Spec2Model ----
(***************************************************************************)
(* The Grove of zkopru: the coordinator of the UTXO tree, the Withdrawal   *)
(* tree and the Nullifier tree (src/unnamed/part_000), over the document   *)
(* store it persists to.  The frontier engine (LightRollupTree), the       *)
(* hasher, the proof verifier, the tree cache and the nullifier tree are   *)
(* collaborators of the Grove whose sources are not part of src/; they are *)
(* modelled from their description in spec.md (sections 4.1 to 4.5).       *)
(***************************************************************************)
EXTENDS Integers, Sequences, FiniteSets, TLC

(***************************************************************************)
(* GroveConfig                                                             *)
(***************************************************************************)
UtxoTreeDepth == 2

WithdrawalTreeDepth == 1

NullifierTreeDepth == 1

UtxoSubTreeSize == 2

WithdrawalSubTreeSize == 2

(***************************************************************************)
(* Bounds of the inputs                                                    *)
(***************************************************************************)
\* longest list of UTXO leaves in one patch
MaxUtxos == 2

\* longest list of Withdrawal leaves in one patch
MaxWithdrawals == 1

\* most nullifiers in one patch
MaxNullifiers == 1

(***************************************************************************)
(* Arithmetic                                                              *)
(***************************************************************************)
RECURSIVE Pow2(_)
Pow2(n) == IF n = 0 THEN 1 ELSE 2 * Pow2(n - 1)

\* Math.ceil(a / b) for a >= 0, b > 0
Ceil(a, b) == (a + b - 1) \div b

\* n.toString(2).length: 1 for 0 and 1, 2 for 2 and 3, ...
RECURSIVE BitLength(_)
BitLength(n) == IF n < 2 THEN 1 ELSE 1 + BitLength(n \div 2)

\* bit k of n
Bit(n, k) == (n \div Pow2(k)) % 2

(***************************************************************************)
(* Hasher: a collision-free binary hash.  A leaf value v is <<v>>, the     *)
(* parent of l and r is the pair <<l, r>>, so two nodes are equal exactly  *)
(* when the trees below them are.                                          *)
(***************************************************************************)
Zero == <<0>>

parentOf(l, r) == <<l, r>>

RECURSIVE PreHash(_)
PreHash(k) == IF k = 0 THEN Zero ELSE parentOf(PreHash(k - 1), PreHash(k - 1))

genesisRoot(depth) == PreHash(depth)

\* hasher.preHash.slice(0, -1): levels 0 .. depth-1 (level k at position k+1)
PreHashSlice(depth) == [k \in 1..depth |-> PreHash(k - 1)]

(***************************************************************************)
(* Persisted encodings.  A stored value carries the format it was written  *)
(* in; Fp.from and toBN read decimal and 0x-hex strings alike, JSON.parse  *)
(* reads only JSON.                                                        *)
(***************************************************************************)
toString10(x) == [fmt |-> "dec", val |-> x]

hexify(x) == [fmt |-> "hex", val |-> x]

JSONstringify(s) == [fmt |-> "json", val |-> s]

NaN == <<-1>>

FpFrom(s) == IF s.fmt \in {"dec", "hex"} THEN s.val ELSE NaN

toBN(s) == IF s.fmt \in {"dec", "hex"} THEN s.val ELSE NaN

JSONparse(s) == IF s.fmt = "json" THEN s.val ELSE <<>>

(***************************************************************************)
(* Reference Merkle tree: the node at `level` and position `pos` of the    *)
(* depth-`depth` tree whose first leaves are `leaves`; every further leaf  *)
(* is empty (Zero), so an empty subtree of height k hashes to PreHash(k).  *)
(***************************************************************************)
RECURSIVE RefNode(_, _, _)
RefNode(leaves, level, pos) ==
    IF level = 0
    THEN IF pos < Len(leaves) THEN leaves[pos + 1] ELSE Zero
    ELSE parentOf(RefNode(leaves, level - 1, 2 * pos),
                  RefNode(leaves, level - 1, 2 * pos + 1))

RefRoot(depth, leaves) == RefNode(leaves, depth, 0)

(***************************************************************************)
(* Leaves, patches and the document store                                  *)
(***************************************************************************)
Species == {"UTXO", "WITHDRAWAL"}

DepthOf(species) == IF species = "UTXO" THEN UtxoTreeDepth ELSE WithdrawalTreeDepth

\* the table holding the leaves of a species that the node keeps for proofs
LeafTable(species) == IF species = "UTXO" THEN "utxo" ELSE "withdrawal"

\* no LightTree row (findOne returns null)
NoRow == [species |-> "none"]

\* a column holding NULL
Null == [fmt |-> "null", val |-> 0]

\* no tree object (the field is undefined)
NoTree == [root |-> <<>>, index |-> 0, siblings |-> <<>>, leaves |-> <<>>]

NoNodes == [n \in {} |-> Zero]

\* a tree that was just constructed observes no address
NobodyObserved == [s \in Species |-> {}]

EmptyDB ==
    [lightTree  |-> [s \in Species |-> NoRow],
     treeNode   |-> [s \in Species |-> NoNodes],
     utxo       |-> {},
     withdrawal |-> {},
     nullifier  |-> {},
     bootstrap  |-> <<>>,
     block      |-> <<>>]

NoHeader == "none"

EmptyPatch == [header |-> NoHeader, utxos |-> <<>>, withdrawals |-> <<>>, nullifiers |-> {}]

(***************************************************************************)
(* MerkleProof (spec.md 4.1)                                               *)
(***************************************************************************)
RECURSIVE FoldProof(_, _, _, _)
\* the node reached from `node` at `level` by the siblings of the path of index
FoldProof(node, index, siblings, level) ==
    IF level = Len(siblings)
    THEN node
    ELSE FoldProof(IF Bit(index, level) = 1
                   THEN parentOf(siblings[level + 1], node)
                   ELSE parentOf(node, siblings[level + 1]),
                   index, siblings, level + 1)

verifyProof(proof) == proof.root = FoldProof(proof.leaf, proof.index, proof.siblings, 0)

startingLeafProof(root, index, siblings) ==
    /\ \A k \in 0..(Len(siblings) - 1) :
          Bit(index, k) = 0 => siblings[k + 1] = PreHash(k)
    /\ verifyProof([root |-> root, index |-> index, leaf |-> PreHash(0),
                    siblings |-> siblings])

(***************************************************************************)
(* LightRollupTree: the frontier engine (spec.md 4.2, 4.3)                 *)
(***************************************************************************)
SiblingOf(p) == IF p % 2 = 0 THEN p + 1 ELSE p - 1

\* heap index of the node at `level` above leaf `index`
PathIndex(depth, index, level) == (Pow2(depth) + index) \div Pow2(level)

\* node p lies on the path of a retained leaf, or is a sibling of that path
OnRetainedPath(depth, tracking, p) ==
    \E i \in tracking, k \in 0..(depth - 1) :
        LET q == PathIndex(depth, i, k) IN p = q \/ p = SiblingOf(q)

\* the indices of the leaves the store keeps for proofs
TrackingLeaves(rows) == {FpFrom(r.index) : r \in {x \in rows : x.index.fmt # "null"}}

RECURSIVE Walk(_, _, _, _, _, _, _)
\* One leaf's walk from `level` to the root.  ctx = [track, tracking, fullSync].
\* A left child becomes the frontier's sibling of its level; a right child is
\* hashed with that sibling, which stays in the frontier for the leaves of
\* the same subtree that follow.
Walk(depth, level, index, node, siblings, staged, ctx) ==
    IF level = depth
    THEN [root |-> node, siblings |-> siblings, staged |-> staged]
    ELSE LET p      == PathIndex(depth, index, level)
             isLeft == p % 2 = 0
             sib    == IF isLeft THEN PreHash(level) ELSE siblings[level + 1]
             s1     == IF ctx.fullSync \/ OnRetainedPath(depth, ctx.tracking, p)
                       THEN (p :> hexify(node)) @@ staged
                       ELSE staged
             s2     == IF ctx.track
                       THEN (SiblingOf(p) :> hexify(sib)) @@ s1
                       ELSE s1
             parent == IF isLeft
                       THEN parentOf(node, PreHash(level))
                       ELSE parentOf(siblings[level + 1], node)
             sibs2  == IF isLeft THEN [siblings EXCEPT ![level + 1] = node]
                       ELSE siblings
         IN  Walk(depth, level + 1, index, parent, sibs2, s2, ctx)

\* acc = [tree, staged, rows]: the frontier, the TreeNode rows and the leaf
\* rows staged so far; w is the walk of `leaf` from acc.tree
LeafAppended(acc, leaf, w) ==
    LET row == [hash |-> toString10(leaf.hash), index |-> toString10(acc.tree.index)]
    IN  [tree   |-> [root     |-> w.root,
                     index    |-> acc.tree.index + 1,
                     siblings |-> w.siblings,
                     leaves   |-> Append(acc.tree.leaves, leaf.hash)],
         staged |-> w.staged,
         rows   |-> IF leaf.shouldTrack
                    THEN {r \in acc.rows : r.hash # row.hash} \cup {row}
                    ELSE acc.rows]

\* the retained leaves once `leaf` is appended to `tree`
TrackingWith(tracking, tree, leaf) ==
    IF leaf.shouldTrack THEN tracking \cup {tree.index} ELSE tracking

RECURSIVE AppendAll(_, _, _, _, _, _)
AppendAll(depth, acc, leaves, tracking, fullSync, i) ==
    IF i > Len(leaves)
    THEN acc
    ELSE CHOOSE r \in
             {AppendAll(depth, LeafAppended(acc, leaves[i], w), leaves, t, fullSync, i + 1) :
                 w \in {Walk(depth, 0, acc.tree.index, leaves[i].hash,
                             acc.tree.siblings, acc.staged,
                             [track    |-> leaves[i].shouldTrack,
                              tracking |-> TrackingWith(tracking, acc.tree, leaves[i]),
                              fullSync |-> fullSync])},
                 t \in {TrackingWith(tracking, acc.tree, leaves[i])}} : TRUE

latestLeafIndex(tree) == tree.index

maxSize(depth) == Pow2(depth)

\* dryAppend(leaves): the same walk on a scratch copy; nothing is staged
dryAppend(species, tree, leaves) ==
    LET r == AppendAll(DepthOf(species),
                       [tree |-> tree, staged |-> NoNodes, rows |-> {}],
                       leaves, {}, FALSE, 1)
    IN  [root |-> r.tree.root, index |-> tree.index + Len(leaves)]

\* the metadata row after an append: root, index and siblings are rewritten
RowAfterAppend(species, row, tree) ==
    IF species = "UTXO"
    THEN [row EXCEPT !.root = toString10(tree.root),
                     !.index = toString10(tree.index),
                     !.siblings = JSONstringify([k \in DOMAIN tree.siblings |->
                                                   toString10(tree.siblings[k])]),
                     !.leaves = tree.leaves]
    ELSE [row EXCEPT !.root = hexify(tree.root),
                     !.index = toString10(tree.index),
                     !.siblings = JSONstringify([k \in DOMAIN tree.siblings |->
                                                   hexify(tree.siblings[k])]),
                     !.leaves = tree.leaves]

\* append(leaves, tx) on Grove state g: the in-memory frontier and the cache
\* change at once, the rows are staged into the caller's transaction
\* r = [tree, staged, rows] is what the walks of the batch produced
AppendStaged(species, g, r) ==
    IF species = "UTXO"
    THEN [g EXCEPT
            !.utxoTree = r.tree,
            !.treeCache[species] = r.staged @@ @,
            !.tx.treeNode[species] = r.staged @@ @,
            !.tx.utxo = r.rows,
            !.tx.lightTree[species] = IF @.species = "none" THEN @
                                      ELSE RowAfterAppend(species, @, r.tree)]
    ELSE [g EXCEPT
            !.withdrawalTree = r.tree,
            !.treeCache[species] = r.staged @@ @,
            !.tx.treeNode[species] = r.staged @@ @,
            !.tx.withdrawal = r.rows,
            !.tx.lightTree[species] = IF @.species = "none" THEN @
                                      ELSE RowAfterAppend(species, @, r.tree)]

\* the two addresses notes are sent to
Addresses == {"alice", "bob"}

\* the retention predicate of a tree that observes `addresses`; the owner of
\* a note is read off its commitment (odd values are alice's), and a padding
\* leaf carries no note
IsObserved(addresses, leaf) ==
    /\ leaf.hash # Zero
    /\ (IF leaf.hash[1] % 2 = 1 THEN "alice" ELSE "bob") \in addresses

\* track = shouldTrack || observed(leaf), decided for each leaf of the batch
Tracked(addresses, leaves) ==
    [i \in DOMAIN leaves |->
        [leaves[i] EXCEPT !.shouldTrack = @ \/ IsObserved(addresses, leaves[i])]]

treeAppend(species, g, leaves) ==
    CHOOSE appended \in
        {AppendStaged(species, g, r) :
            r \in {AppendAll(DepthOf(species),
                             [tree   |-> IF species = "UTXO" THEN g.utxoTree
                                         ELSE g.withdrawalTree,
                              staged |-> NoNodes,
                              rows   |-> g.tx[LeafTable(species)]],
                             Tracked(g.observed[species], leaves),
                             TrackingLeaves(g.tx[LeafTable(species)]),
                             g.fullSync, 1)}} : TRUE

\* UtxoTree.from / WithdrawalTree.from: the tree rehydrated from its row
treeFrom(row) ==
    LET sibs == JSONparse(row.siblings)
    IN  [root     |-> FpFrom(row.root),
         index    |-> FpFrom(row.index),
         siblings |-> [k \in DOMAIN sibs |-> FpFrom(sibs[k])],
         leaves   |-> row.leaves]

(***************************************************************************)
(* NullifierTree (spec.md 4.5): a sparse tree of bits                      *)
(***************************************************************************)
NullifierKeys == 0..(Pow2(NullifierTreeDepth) - 1)

RECURSIVE NullifierNode(_, _, _)
NullifierNode(bits, level, pos) ==
    IF level = 0
    THEN IF pos \in bits THEN <<1>> ELSE Zero
    ELSE parentOf(NullifierNode(bits, level - 1, 2 * pos),
                  NullifierNode(bits, level - 1, 2 * pos + 1))

NullifierRoot(bits) == NullifierNode(bits, NullifierTreeDepth, 0)

dryRunNullify(tree, keys) == NullifierRoot(tree.bits \cup keys)

NoNullifierTree == [present |-> FALSE, bits |-> {}]

(***************************************************************************)
(* State                                                                   *)
(***************************************************************************)
VARIABLES
    utxoTree,        \* Grove.utxoTree: [root, index, siblings, leaves] or NoTree
    withdrawalTree,  \* Grove.withdrawalTree
    nullifierTree,   \* Grove.nullifierTree: [present, bits]
    treeCache,       \* Grove.treeCache: per species, nodeIndex -> value
    fullSync,        \* config.fullSync
    observed,        \* per tree, the addresses its retention predicate matches
    db,              \* the committed rows of the store
    tx,              \* the rows as the caller's open transaction would commit them
    bootstrapped,    \* history: applyBootstrap has written a LightTree row
    committed,       \* history: what the committed writes made of the trees
    tasks,           \* the calls in flight: per task [op, pc, arg, got, err, result]
    lock,            \* the AsyncLock 'grove': [holder, queue]
    last,            \* the call that has just returned: [op, err, patch, result]
    prev             \* the Grove as it was when that call started

vars == <<utxoTree, withdrawalTree, nullifierTree, treeCache, fullSync, observed, db, tx,
          bootstrapped, committed, tasks, lock, last, prev>>

asyncVars == <<tasks, lock>>

\* the Grove and its store as one value
Grove ==
    [utxoTree       |-> utxoTree,
     withdrawalTree |-> withdrawalTree,
     nullifierTree  |-> nullifierTree,
     treeCache      |-> treeCache,
     fullSync       |-> fullSync,
     observed       |-> observed,
     db             |-> db,
     tx             |-> tx,
     err            |-> "none"]

IdleLast == [op |-> "idle", err |-> "none", patch |-> EmptyPatch, result |-> <<>>]

NoPrev == <<>>

Idle == last.op = "idle"

(***************************************************************************)
(* SQLiteConnector.upsert on LightTree: update the row of the species when *)
(* there is one, create it otherwise                                       *)
(***************************************************************************)
upsertLightTree(rows, species, data) ==
    LET updated == IF rows[species].species = "none" THEN 0 ELSE 1
    IN  IF updated > 0
        THEN [rows EXCEPT ![species] =
                 [@ EXCEPT !.root = data.root, !.index = data.index,
                           !.siblings = data.siblings, !.start = data.start,
                           !.end = data.end, !.leaves = data.leaves]]
        ELSE [rows EXCEPT ![species] =
                 [species |-> species, root |-> data.root, index |-> data.index,
                  siblings |-> data.siblings, start |-> data.start,
                  end |-> data.end, leaves |-> data.leaves]]

NoProof == [present |-> FALSE]

\* bootstrapUtxoTree / bootstrapWithdrawalTree: [g, err, treeSql, tree]
bootstrapTree(species, g, proof) ==
    LET depth    == DepthOf(species)
        root     == IF proof.present THEN proof.root ELSE genesisRoot(depth)
        index    == IF proof.present THEN proof.index ELSE 0
        siblings == IF proof.present THEN proof.siblings ELSE PreHashSlice(depth)
        leaves   == IF proof.present THEN proof.leaves ELSE <<>>
        data     == IF species = "UTXO"
                    THEN [root     |-> toString10(root),
                          index    |-> toString10(index),
                          siblings |-> JSONstringify([k \in DOMAIN siblings |->
                                                        toString10(siblings[k])]),
                          start    |-> toString10(index),
                          end      |-> toString10(index),
                          leaves   |-> leaves]
                    ELSE [root     |-> hexify(root),
                          index    |-> toString10(index),
                          siblings |-> JSONstringify([k \in DOMAIN siblings |->
                                                        hexify(siblings[k])]),
                          start    |-> toString10(index),
                          end      |-> toString10(index),
                          leaves   |-> leaves]
        rows     == upsertLightTree(g.db.lightTree, species, data)
        treeSql  == rows[species]
    IN  IF proof.present /\ ~startingLeafProof(proof.root, proof.index, proof.siblings)
        THEN [g |-> [g EXCEPT !.err = "InvalidBootstrapProof"], treeSql |-> NoRow,
              tree |-> NoTree]
        ELSE [g |-> [g EXCEPT !.db.lightTree = rows, !.tx.lightTree = rows],
              treeSql |-> treeSql, tree |-> treeFrom(treeSql)]

\* an init that writes a genesis row whether or not the store has one
initRewriting(g) ==
    LET u  == bootstrapTree("UTXO", g, NoProof)
        g1 == [u.g EXCEPT !.utxoTree = treeFrom(u.treeSql)]
        w  == bootstrapTree("WITHDRAWAL", g1, NoProof)
        g2 == [w.g EXCEPT !.withdrawalTree = treeFrom(w.treeSql)]
    IN  [g2 EXCEPT !.nullifierTree = [present |-> TRUE, bits |-> g.db.nullifier]]

\* an init whose new row has the empty-leaf hash as its root
ensureTreeDataZeroRoot(species, g) ==
    IF g.db.lightTree[species].species = "none"
    THEN LET b    == bootstrapTree(species, g, NoProof).g
             root == IF species = "UTXO" THEN toString10(Zero) ELSE hexify(Zero)
         IN  [b EXCEPT !.db.lightTree[species].root = root,
                       !.tx.lightTree[species].root = root]
    ELSE g

\* an init that starts a new tree over the row the store has
ensureTreeDataFresh(species, g) == bootstrapTree(species, g, NoProof).g

\* init, first half of a species: start a new tree if there is no row
ensureTreeData(species, g) ==
    IF g.db.lightTree[species].species = "none"
    THEN bootstrapTree(species, g, NoProof).g
    ELSE g

\* init, second half of a species: the tree from the row (the row found, or
\* the treeSql bootstrapUtxoTree / bootstrapWithdrawalTree read back)
treeFromData(species, g) ==
    IF species = "UTXO"
    THEN [g EXCEPT !.utxoTree = treeFrom(g.db.lightTree[species]),
                   !.observed[species] = {}]
    ELSE [g EXCEPT !.withdrawalTree = treeFrom(g.db.lightTree[species]),
                   !.observed[species] = {}]

\* init, last step: new NullifierTree over the store
newNullifierTree(g) ==
    [g EXCEPT !.nullifierTree = [present |-> TRUE, bits |-> g.db.nullifier]]

\* Grove.init
init(g) ==
    newNullifierTree(
        treeFromData("WITHDRAWAL", ensureTreeData("WITHDRAWAL",
            treeFromData("UTXO", ensureTreeData("UTXO", g)))))

\* an applyBootstrap that starts both trees from genesis, whatever the proofs
applyBootstrapUnproven(g, utxoProof, withdrawalProof) ==
    LET u == bootstrapTree("UTXO", g, NoProof)
        w == bootstrapTree("WITHDRAWAL", u.g, NoProof)
    IN  [w.g EXCEPT !.utxoTree = u.tree, !.withdrawalTree = w.tree]

\* Grove.applyBootstrap
applyBootstrap(g, utxoProof, withdrawalProof) ==
    LET u == bootstrapTree("UTXO", g, utxoProof)
        w == bootstrapTree("WITHDRAWAL", u.g, withdrawalProof)
    IN  IF u.g.err # "none" THEN u.g
        ELSE IF w.g.err # "none" THEN w.g
        ELSE [w.g EXCEPT !.utxoTree = u.tree, !.withdrawalTree = w.tree,
                         !.observed = NobodyObserved]

(***************************************************************************)
(* Grove.applyGrovePatch and its steps                                     *)
(***************************************************************************)
\* a padding leaf whose hash is not the empty-leaf value
PaddingLeafNonZero == [hash |-> <<0, 0>>, shouldTrack |-> FALSE]

\* the leaf appendUTXOs / appendWithdrawals push to pad a batch: { hash: Fp.zero }
PaddingLeaf == [hash |-> Zero, shouldTrack |-> FALSE]

\* a total length rounded down instead of up
FloorSizeLen(subTreeSize, n) == subTreeSize * (n \div subTreeSize)

\* totalItemLen: subTreeSize * Math.ceil(length / subTreeSize)
FixedSizeLen(subTreeSize, n) == subTreeSize * Ceil(n, subTreeSize)

\* a batch left as it was given
Unpadded(subTreeSize, leaves) == leaves

Padded(subTreeSize, leaves) ==
    leaves \o [i \in 1..(FixedSizeLen(subTreeSize, Len(leaves)) - Len(leaves)) |->
                 PaddingLeaf]

\* appendUTXOs with the capacity test off by one (a batch that fills the tree
\* exactly is refused)
appendUTXOsOffByOne(g, utxos) ==
    LET totalItemLen == FixedSizeLen(UtxoSubTreeSize, Len(utxos))
        paddedUtxos  == Padded(UtxoSubTreeSize, utxos)
    IN  IF g.utxoTree = NoTree
        THEN [g EXCEPT !.err = "NotInitialized"]
        ELSE IF latestLeafIndex(g.utxoTree) + totalItemLen < maxSize(UtxoTreeDepth)
        THEN treeAppend("UTXO", g, paddedUtxos)
        ELSE [g EXCEPT !.err = "TreeFull:utxo"]

\* appendUTXOs that appends the batch as given and then moves the index on to
\* the sub-tree boundary without appending any padding leaf
appendUTXOsSkipping(g, utxos) ==
    LET totalItemLen == FixedSizeLen(UtxoSubTreeSize, Len(utxos))
    IN  IF g.utxoTree = NoTree
        THEN [g EXCEPT !.err = "NotInitialized"]
        ELSE IF latestLeafIndex(g.utxoTree) + totalItemLen <= maxSize(UtxoTreeDepth)
        THEN [treeAppend("UTXO", g, utxos) EXCEPT
                !.utxoTree.index = g.utxoTree.index + totalItemLen]
        ELSE [g EXCEPT !.err = "TreeFull:utxo"]

appendUTXOs(g, utxos) ==
    LET totalItemLen == FixedSizeLen(UtxoSubTreeSize, Len(utxos))
        paddedUtxos  == Padded(UtxoSubTreeSize, utxos)
    IN  IF g.utxoTree = NoTree
        THEN [g EXCEPT !.err = "NotInitialized"]
        ELSE IF latestLeafIndex(g.utxoTree) + totalItemLen <= maxSize(UtxoTreeDepth)
        THEN treeAppend("UTXO", g, paddedUtxos)
        ELSE [g EXCEPT !.err = "TreeFull:utxo"]

appendWithdrawals(g, withdrawals) ==
    LET totalItemLen      == FixedSizeLen(WithdrawalSubTreeSize, Len(withdrawals))
        paddedWithdrawals == Padded(WithdrawalSubTreeSize, withdrawals)
    IN  IF g.withdrawalTree = NoTree
        THEN [g EXCEPT !.err = "NotInitialized"]
        ELSE IF latestLeafIndex(g.withdrawalTree) + totalItemLen
                  <= maxSize(WithdrawalTreeDepth)
        THEN treeAppend("WITHDRAWAL", g, paddedWithdrawals)
        ELSE [g EXCEPT !.err = "TreeFull:withdrawal"]

\* NullifierTree.nullify(keys, tx)
nullify(g, keys) ==
    [g EXCEPT !.nullifierTree.bits = @ \cup keys, !.tx.nullifier = @ \cup keys]

\* a markAsNullified that throws when there is no nullifier tree
markAsNullifiedRequired(g, nullifiers) ==
    IF g.nullifierTree.present
    THEN nullify(g, nullifiers)
    ELSE [g EXCEPT !.err = "NotInitialized"]

\* a markAsNullified that refuses a key that is already set
markAsNullifiedOnce(g, nullifiers) ==
    IF g.nullifierTree.present
    THEN IF nullifiers \cap g.nullifierTree.bits # {}
         THEN [g EXCEPT !.err = "AlreadyNullified"]
         ELSE nullify(g, nullifiers)
    ELSE g

\* a markAsNullified that leaves the nullifier tree alone
markAsNullifiedSkipping(g, nullifiers) == g

markAsNullified(g, nullifiers) ==
    IF g.nullifierTree.present THEN nullify(g, nullifiers) ELSE g

\* the columns of the tables recordBootstrap writes, each holding NULL
BootstrapColumns ==
    [blockHash |-> NoHeader, utxoBootstrap |-> Null, withdrawalBootstrap |-> Null]

BlockColumns == [hash |-> NoHeader]

\* SQLiteConnector.create: one INSERT of the fields of doc; a column that doc
\* does not name is NULL
create(rows, columns, doc) ==
    Append(rows, [c \in DOMAIN columns |-> IF c \in DOMAIN doc THEN doc[c] ELSE columns[c]])

\* an upsert that looks for the row before it decides, also when there is
\* nothing to update
upsertEnsuring(rows, columns, key, value, updateDoc, createDoc) ==
    IF \E i \in DOMAIN rows : rows[i][key] = value
    THEN [i \in DOMAIN rows |->
            IF rows[i][key] = value
            THEN [c \in DOMAIN rows[i] |->
                    IF c \in DOMAIN updateDoc THEN updateDoc[c] ELSE rows[i][c]]
            ELSE rows[i]]
    ELSE create(rows, columns, createDoc)

\* SQLiteConnector.update: returns 0 at once when update has no key, and the
\* number of rows the UPDATE changed otherwise
update(rows, key, value, doc) ==
    IF DOMAIN doc = {}
    THEN [rows |-> rows, changes |-> 0]
    ELSE [rows    |-> [i \in DOMAIN rows |->
                         IF rows[i][key] = value
                         THEN [c \in DOMAIN rows[i] |->
                                 IF c \in DOMAIN doc THEN doc[c] ELSE rows[i][c]]
                         ELSE rows[i]],
          changes |-> Cardinality({i \in DOMAIN rows : rows[i][key] = value})]

\* SQLiteConnector.upsert: create runs whenever update reports no change
upsert(rows, columns, key, value, updateDoc, createDoc) ==
    LET updated == update(rows, key, value, updateDoc)
    IN  IF updated.changes > 0
        THEN updated.rows
        ELSE create(rows, columns, createDoc)

recordBootstrap(g, header) ==
    LET bootstrapData ==
            [utxoBootstrap |-> JSONstringify([k \in DOMAIN g.utxoTree.siblings |->
                                               hexify(g.utxoTree.siblings[k])]),
             withdrawalBootstrap |->
                 JSONstringify([k \in DOMAIN g.withdrawalTree.siblings |->
                                 hexify(g.withdrawalTree.siblings[k])])]
    IN  IF header # NoHeader
        THEN [g EXCEPT
                !.tx.bootstrap = upsert(@, BootstrapColumns, "blockHash", header,
                                        bootstrapData, bootstrapData),
                !.tx.block = upsert(@, BlockColumns, "hash", header,
                                    <<>>, [hash |-> header])]
        ELSE [g EXCEPT !.tx.bootstrap = create(@, BootstrapColumns, bootstrapData)]

\* the steps of applyGrovePatch after the first: each runs when the one
\* before it has not thrown
thenAppendWithdrawals(g, patch) ==
    IF g.err = "none" THEN appendWithdrawals(g, patch.withdrawals) ELSE g

thenMarkAsNullified(g, patch) ==
    IF g.err = "none" THEN markAsNullified(g, patch.nullifiers) ELSE g

\* a step that records the Bootstrap row whatever config.fullSync says
recordBootstrapAlways(g, patch) ==
    IF g.err = "none" THEN recordBootstrap(g, patch.header) ELSE g

thenRecordBootstrap(g, patch) ==
    IF g.err = "none" /\ g.fullSync THEN recordBootstrap(g, patch.header) ELSE g

applyGrovePatch(g, patch) ==
    thenRecordBootstrap(
        thenMarkAsNullified(
            thenAppendWithdrawals(appendUTXOs(g, patch.utxos), patch), patch), patch)

(***************************************************************************)
(* Grove.dryPatch and Grove.getSnapshot                                    *)
(***************************************************************************)
\* a dryPatch that appends to the trees themselves instead of dry-running
dryPatchAppending(g, patch) ==
    appendWithdrawals(appendUTXOs(g, patch.utxos), patch.withdrawals)

\* The Grove after dryPatch: the method assigns no field and hands no
\* transaction to the trees.
dryPatchEffect(g, patch) == g

Untracked(leaves) == [i \in DOMAIN leaves |-> [leaves[i] EXCEPT !.shouldTrack = FALSE]]

\* a dryPatch that reports the index dryAppend returned
dryPatchRawIndex(g, patch) ==
    LET utxoResult       == dryAppend("UTXO", g.utxoTree, Untracked(patch.utxos))
        withdrawalResult == dryAppend("WITHDRAWAL", g.withdrawalTree,
                                      Untracked(patch.withdrawals))
    IN  [utxoTreeIndex       |-> utxoResult.index,
         utxoTreeRoot        |-> utxoResult.root,
         withdrawalTreeIndex |-> withdrawalResult.index,
         withdrawalTreeRoot  |-> withdrawalResult.root,
         hasNullifierRoot    |-> g.nullifierTree.present,
         nullifierTreeRoot   |-> IF g.nullifierTree.present
                                 THEN dryRunNullify(g.nullifierTree, patch.nullifiers)
                                 ELSE <<>>]

dryPatch(g, patch) ==
    LET utxoResult       == dryAppend("UTXO", g.utxoTree, Untracked(patch.utxos))
        withdrawalResult == dryAppend("WITHDRAWAL", g.withdrawalTree,
                                      Untracked(patch.withdrawals))
        utxoFixedSizeLen == UtxoSubTreeSize * Ceil(Len(patch.utxos), UtxoSubTreeSize)
        withdrawalFixedSizeLen ==
            WithdrawalSubTreeSize * Ceil(Len(patch.withdrawals), WithdrawalSubTreeSize)
    IN  [utxoTreeIndex       |-> utxoResult.index + utxoFixedSizeLen - Len(patch.utxos),
         utxoTreeRoot        |-> utxoResult.root,
         withdrawalTreeIndex |-> withdrawalResult.index + withdrawalFixedSizeLen
                                   - Len(patch.withdrawals),
         withdrawalTreeRoot  |-> withdrawalResult.root,
         hasNullifierRoot    |-> g.nullifierTree.present,
         nullifierTreeRoot   |-> IF g.nullifierTree.present
                                 THEN dryRunNullify(g.nullifierTree, patch.nullifiers)
                                 ELSE <<>>]

getSnapshot(g) == dryPatch(g, EmptyPatch)

(***************************************************************************)
(* Proof queries                                                           *)
(***************************************************************************)
\* TreeCache.getCachedSiblings: the stored siblings of the path of leafIndex,
\* from the cache first and from the TreeNode rows otherwise
getCachedSiblings(g, species, depth, leafIndex) ==
    LET wanted == {SiblingOf(PathIndex(depth, leafIndex, k)) : k \in 0..(depth - 1)}
        nodes  == g.treeCache[species] @@ g.db.treeNode[species]
    IN  {[nodeIndex |-> n, value |-> nodes[n]] : n \in wanted \cap DOMAIN nodes}

\* a siblings array that ignores the stored nodes
SiblingsFromPreHash(depth, cachedSiblings) == [k \in 1..depth |-> PreHash(k - 1)]

\* the siblings array after cachedSiblings.forEach
SiblingsFrom(depth, cachedSiblings) ==
    [k \in 1..depth |->
        IF \E obj \in cachedSiblings : 1 + depth - BitLength(obj.nodeIndex) = k - 1
        THEN FpFrom((CHOOSE obj \in cachedSiblings :
                        1 + depth - BitLength(obj.nodeIndex) = k - 1).value)
        ELSE PreHash(k - 1)]

\* the root after cachedSiblings.forEach
RootFrom(depth, cachedSiblings, treeRoot) ==
    IF \E obj \in cachedSiblings : 1 + depth - BitLength(obj.nodeIndex) = depth
    THEN FpFrom((CHOOSE obj \in cachedSiblings :
                    1 + depth - BitLength(obj.nodeIndex) = depth).value)
    ELSE treeRoot

NoProofResult == [root |-> <<>>, index |-> 0, leaf |-> <<>>, siblings |-> <<>>]

\* Grove.utxoMerkleProof: [err, proof]
\* the optional index argument of withdrawalMerkleProof
NoIndex == [present |-> FALSE, val |-> 0]

\* a utxoMerkleProof whose test `!utxo.index` takes index 0 for missing
utxoMerkleProofFalsyZero(g, hash) ==
    LET found == {r \in g.db.utxo : r.hash = toString10(hash)}
        utxo  == CHOOSE r \in found : TRUE
        cachedSiblings == getCachedSiblings(g, "UTXO", UtxoTreeDepth, FpFrom(utxo.index))
        proof == [root     |-> RootFrom(UtxoTreeDepth, cachedSiblings, g.utxoTree.root),
                  index    |-> FpFrom(utxo.index),
                  leaf     |-> FpFrom(utxo.hash),
                  siblings |-> SiblingsFrom(UtxoTreeDepth, cachedSiblings)]
    IN  IF found = {} THEN [err |-> "LeafNotFound", proof |-> NoProofResult]
        ELSE IF utxo.index.fmt = "null" \/ FpFrom(utxo.index) = 0
        THEN [err |-> "LeafNotCommitted", proof |-> NoProofResult]
        ELSE IF g.utxoTree = NoTree
        THEN [err |-> "TypeError", proof |-> NoProofResult]
        ELSE IF ~verifyProof(proof)
        THEN [err |-> "ProofUnavailable", proof |-> NoProofResult]
        ELSE [err |-> "none", proof |-> proof]

utxoMerkleProof(g, hash) ==
    LET found == {r \in g.db.utxo : r.hash = toString10(hash)}
        utxo  == CHOOSE r \in found : TRUE
        cachedSiblings == getCachedSiblings(g, "UTXO", UtxoTreeDepth, FpFrom(utxo.index))
        proof == [root     |-> RootFrom(UtxoTreeDepth, cachedSiblings, g.utxoTree.root),
                  index    |-> FpFrom(utxo.index),
                  leaf     |-> FpFrom(utxo.hash),
                  siblings |-> SiblingsFrom(UtxoTreeDepth, cachedSiblings)]
    IN  IF found = {} THEN [err |-> "LeafNotFound", proof |-> NoProofResult]
        ELSE IF utxo.index.fmt = "null"
        THEN [err |-> "LeafNotCommitted", proof |-> NoProofResult]
        ELSE IF g.utxoTree = NoTree
        THEN [err |-> "TypeError", proof |-> NoProofResult]
        ELSE IF ~verifyProof(proof)
        THEN [err |-> "ProofUnavailable", proof |-> NoProofResult]
        ELSE [err |-> "none", proof |-> proof]

\* Grove.withdrawalMerkleProof: leafIndex is the index argument when there is
\* one and the index of the row otherwise
withdrawalMerkleProof(g, noteHash, index) ==
    LET found      == {r \in g.db.withdrawal : r.hash = toString10(noteHash)}
        withdrawal == CHOOSE r \in found : TRUE
        leafIndex  == IF index.present THEN toString10(index.val) ELSE withdrawal.index
        cachedSiblings == getCachedSiblings(g, "WITHDRAWAL", WithdrawalTreeDepth,
                                            toBN(leafIndex))
        proof == [root     |-> RootFrom(WithdrawalTreeDepth, cachedSiblings,
                                        g.withdrawalTree.root),
                  index    |-> toBN(leafIndex),
                  leaf     |-> noteHash,
                  siblings |-> SiblingsFrom(WithdrawalTreeDepth, cachedSiblings)]
    IN  IF found = {} THEN [err |-> "LeafNotFound", proof |-> NoProofResult]
        ELSE IF leafIndex.fmt = "null"
        THEN [err |-> "LeafNotCommitted", proof |-> NoProofResult]
        ELSE IF g.withdrawalTree = NoTree
        THEN [err |-> "TypeError", proof |-> NoProofResult]
        ELSE IF ~verifyProof(proof)
        THEN [err |-> "ProofUnavailable", proof |-> NoProofResult]
        ELSE [err |-> "none", proof |-> proof]

(***************************************************************************)
(* Inputs                                                                  *)
(***************************************************************************)
\* Note commitments are distinct: the i-th leaf offered to a tree whose next
\* index is n carries the value n + i.
LeafLists(tree, maxLen, flags) ==
    UNION {{[i \in 1..n |-> [hash |-> <<tree.index + i>>, shouldTrack |-> f[i]]] :
              f \in [1..n -> flags]} : n \in 0..maxLen}

NullifierLists == {ks \in SUBSET NullifierKeys : Cardinality(ks) <= MaxNullifiers}

Patches ==
    {[header |-> NoHeader, utxos |-> u, withdrawals |-> w, nullifiers |-> n] :
        u \in LeafLists(utxoTree, MaxUtxos, BOOLEAN),
        w \in LeafLists(withdrawalTree, MaxWithdrawals, {FALSE}),
        n \in NullifierLists}

\* the patches offered to dryPatch: every leaf asks to be tracked
DryPatches ==
    {[header |-> NoHeader, utxos |-> u, withdrawals |-> w, nullifiers |-> n] :
        u \in LeafLists(utxoTree, MaxUtxos, {TRUE}),
        w \in LeafLists(withdrawalTree, MaxWithdrawals, {TRUE}),
        n \in NullifierLists}

\* highest index of a starting-leaf proof offered to applyBootstrap; a full
\* tree has no starting leaf
MaxBootstrapIndex == 1

\* the starting-leaf proof of the tree whose leaves are `leaves`
StartingProof(depth, leaves) ==
    LET n == Len(leaves)
    IN  [present  |-> TRUE,
         root     |-> RefRoot(depth, leaves),
         index    |-> n,
         siblings |-> [k \in 1..depth |->
                         IF Bit(n, k - 1) = 1
                         THEN RefNode(leaves, k - 1, (n \div Pow2(k - 1)) - 1)
                         ELSE PreHash(k - 1)],
         leaves   |-> leaves]

BootstrapProofs(depth) ==
    LET valid == {StartingProof(depth, [i \in 1..n |-> <<i>>]) :
                    n \in {m \in 0..MaxBootstrapIndex : m < maxSize(depth)}}
    IN  valid \cup {[StartingProof(depth, <<>>) EXCEPT !.root = Zero]}

QueryHashes == {<<v>> : v \in 1..(Pow2(UtxoTreeDepth) + 1)}

(***************************************************************************)
(* Actions: the caller makes one call at a time and takes its result       *)
(***************************************************************************)
SetGrove(g) ==
    /\ utxoTree' = g.utxoTree
    /\ withdrawalTree' = g.withdrawalTree
    /\ nullifierTree' = g.nullifierTree
    /\ treeCache' = g.treeCache
    /\ db' = g.db
    /\ tx' = g.tx
    /\ fullSync' = fullSync
    /\ observed' = g.observed

UnchangedGrove ==
    UNCHANGED <<utxoTree, withdrawalTree, nullifierTree, treeCache, fullSync, observed, db, tx>>

\* history: the frontier a species has by the writes committed so far, the keys
\* handed to nullify in committed patches, and whether an applied patch was lost
NoFrontier == [root |-> <<>>, index |-> 0, siblings |-> <<>>]

NothingCommitted ==
    [frontier |-> [s \in Species |-> NoFrontier], nullified |-> {}, lost |-> FALSE]

GenesisFrontier(species) ==
    [root     |-> PreHash(DepthOf(species)),
     index    |-> 0,
     siblings |-> [k \in 1..DepthOf(species) |-> PreHash(k - 1)]]

ProofFrontier(proof) ==
    [root |-> proof.root, index |-> proof.index, siblings |-> proof.siblings]

MemoryFrontier(species) ==
    LET tree == IF species = "UTXO" THEN utxoTree ELSE withdrawalTree
    IN  [root |-> tree.root, index |-> tree.index, siblings |-> tree.siblings]

\* no call in flight and nobody in the locked region
NoTasks == <<>>

FreeLock == [holder |-> "none", queue |-> <<>>]

Init ==
    /\ utxoTree = NoTree
    /\ withdrawalTree = NoTree
    /\ nullifierTree = NoNullifierTree
    /\ treeCache = [s \in Species |-> NoNodes]
    /\ fullSync = FALSE
    /\ observed = NobodyObserved
    /\ db = EmptyDB
    /\ tx = EmptyDB
    /\ bootstrapped = FALSE
    /\ committed = NothingCommitted
    /\ tasks = NoTasks
    /\ lock = FreeLock
    /\ last = IdleLast
    /\ prev = NoPrev

GroveInit ==
    /\ Idle
    /\ SetGrove(init(Grove))
    /\ last' = [op |-> "init", err |-> "none", patch |-> EmptyPatch, result |-> <<>>]
    /\ prev' = Grove
    /\ committed' = [committed EXCEPT
                        !.frontier = [s \in Species |->
                                        IF db.lightTree[s].species = "none"
                                        THEN GenesisFrontier(s) ELSE @[s]]]
    /\ UNCHANGED <<bootstrapped, asyncVars>>

\* applyBootstrap is given to a Grove whose store holds no leaves yet
FreshStore ==
    /\ ~bootstrapped
    /\ \A species \in Species :
          IF db.lightTree[species].species = "none"
          THEN TRUE
          ELSE FpFrom(db.lightTree[species].index) = 0

ApplyBootstrap(utxoProof, withdrawalProof) ==
    /\ Idle
    /\ FreshStore
    /\ LET g == applyBootstrap(Grove, utxoProof, withdrawalProof)
       IN  /\ SetGrove(g)
           /\ last' = [op |-> "applyBootstrap", err |-> g.err, patch |-> EmptyPatch,
                       result |-> [utxoProof |-> utxoProof,
                                   withdrawalProof |-> withdrawalProof]]
           /\ bootstrapped' = (bootstrapped \/ g.db # db)
           /\ committed' = [committed EXCEPT
                 !.frontier = [s \in Species |->
                    IF g.db.lightTree[s] # db.lightTree[s]
                    THEN ProofFrontier(IF s = "UTXO" THEN utxoProof ELSE withdrawalProof)
                    ELSE @[s]]]
    /\ prev' = Grove
    /\ UNCHANGED asyncVars

ApplyGrovePatch(patch) ==
    /\ Idle
    /\ LET g == applyGrovePatch(Grove, patch)
       IN  /\ SetGrove(g)
           /\ last' = [op |-> "applyGrovePatch", err |-> g.err, patch |-> patch,
                       result |-> <<>>]
    /\ prev' = Grove
    /\ UNCHANGED <<bootstrapped, committed, asyncVars>>

\* the caller commits the transaction of a patch that was applied
CommitTx ==
    /\ last.op = "applyGrovePatch"
    /\ last.err = "none"
    /\ db' = tx
    /\ last' = IdleLast
    /\ prev' = NoPrev
    /\ committed' = [frontier  |-> [s \in Species |-> MemoryFrontier(s)],
                      nullified |-> committed.nullified \cup
                                    (IF nullifierTree.present
                                     THEN last.patch.nullifiers ELSE {}),
                      lost      |-> committed.lost]
    /\ UNCHANGED <<utxoTree, withdrawalTree, nullifierTree, treeCache, fullSync, observed, tx,
                   bootstrapped, asyncVars>>

\* The process stops and a new Grove is constructed over the same store; an
\* open transaction is lost.  The transaction of a failed patch is never
\* committed: the error reaches the caller, which ends this way.
Crash ==
    /\ Idle \/ last.op = "applyGrovePatch"
    /\ utxoTree' = NoTree
    /\ withdrawalTree' = NoTree
    /\ nullifierTree' = NoNullifierTree
    /\ treeCache' = [s \in Species |-> NoNodes]
    /\ tx' = db
    /\ last' = IdleLast
    /\ prev' = NoPrev
    /\ committed' = [committed EXCEPT !.lost = @ \/ (last.op = "applyGrovePatch"
                                                      /\ last.err = "none")]
    /\ observed' = NobodyObserved
    /\ UNCHANGED <<fullSync, db, bootstrapped, asyncVars>>

\* dryPatch of a patch whose leaves fit in the trees
DryPatch(patch) ==
    /\ Idle
    /\ utxoTree.index + Len(patch.utxos) <= maxSize(UtxoTreeDepth)
    /\ withdrawalTree.index + Len(patch.withdrawals) <= maxSize(WithdrawalTreeDepth)
    /\ last' = IF utxoTree = NoTree \/ withdrawalTree = NoTree
               THEN [op |-> "dryPatch", err |-> "TypeError", patch |-> patch,
                     result |-> <<>>]
               ELSE [op |-> "dryPatch", err |-> "none", patch |-> patch,
                     result |-> dryPatch(Grove, patch)]
    /\ prev' = Grove
    /\ SetGrove(dryPatchEffect(Grove, patch))
    /\ UNCHANGED <<bootstrapped, committed, asyncVars>>

GetSnapshot ==
    /\ Idle
    /\ last' = IF utxoTree = NoTree \/ withdrawalTree = NoTree
               THEN [op |-> "getSnapshot", err |-> "TypeError", patch |-> EmptyPatch,
                     result |-> <<>>]
               ELSE [op |-> "getSnapshot", err |-> "none", patch |-> EmptyPatch,
                     result |-> getSnapshot(Grove)]
    /\ prev' = Grove
    /\ SetGrove(dryPatchEffect(Grove, EmptyPatch))
    /\ UNCHANGED <<bootstrapped, committed, asyncVars>>

UtxoMerkleProof(hash) ==
    /\ Idle
    /\ LET r == utxoMerkleProof(Grove, hash)
       IN  last' = [op |-> "utxoMerkleProof", err |-> r.err, patch |-> EmptyPatch,
                    result |-> [hash |-> hash, proof |-> r.proof]]
    /\ prev' = Grove
    /\ UnchangedGrove
    /\ UNCHANGED <<bootstrapped, committed, asyncVars>>

WithdrawalMerkleProof(noteHash, index) ==
    /\ Idle
    /\ LET r == withdrawalMerkleProof(Grove, noteHash, index)
       IN  last' = [op |-> "withdrawalMerkleProof", err |-> r.err, patch |-> EmptyPatch,
                    result |-> [hash |-> noteHash, index |-> index, proof |-> r.proof]]
    /\ prev' = Grove
    /\ UnchangedGrove
    /\ UNCHANGED <<bootstrapped, committed, asyncVars>>

\* A note the node has learnt of is stored before any block includes it: its
\* row has no index until the tree appends the leaf and retains it.
SaveNote(species, hash) ==
    /\ Idle
    /\ \A r \in db[LeafTable(species)] : r.hash # toString10(hash)
    /\ db' = [db EXCEPT ![LeafTable(species)] =
                  @ \cup {[hash |-> toString10(hash), index |-> Null]}]
    /\ tx' = db'
    /\ UNCHANGED <<utxoTree, withdrawalTree, nullifierTree, treeCache, fullSync, observed,
                   last, prev, bootstrapped, committed, asyncVars>>

\* the caller takes the result of a call that opened no transaction
Return ==
    /\ last.op \in {"init", "applyBootstrap", "dryPatch", "getSnapshot",
                    "utxoMerkleProof", "withdrawalMerkleProof",
                    "setZkAddressesToObserve", "setAddressesToObserve"}
    /\ last' = IdleLast
    /\ prev' = NoPrev
    /\ UnchangedGrove
    /\ UNCHANGED <<bootstrapped, committed, asyncVars>>

Next ==
    \/ GroveInit
    \/ \E patch \in Patches : ApplyGrovePatch(patch)
    \/ CommitTx
    \/ Crash
    \/ \E patch \in DryPatches : DryPatch(patch)
    \/ GetSnapshot
    \/ \E hash \in QueryHashes : UtxoMerkleProof(hash)
    \/ Return

Spec == Init /\ [][Next]_vars

\* the same node, which may also be set up from a peer's starting-leaf proofs
NextBootstrap ==
    \/ Next
    \/ \E up \in BootstrapProofs(UtxoTreeDepth),
          wp \in BootstrapProofs(WithdrawalTreeDepth) : ApplyBootstrap(up, wp)

SpecBootstrap == Init /\ [][NextBootstrap]_vars

(***************************************************************************)
(* Properties                                                              *)
(***************************************************************************)
Hashes(leaves) == [i \in DOMAIN leaves |-> leaves[i].hash]

\* the least multiple of subTreeSize that is at least n
PaddedLen(subTreeSize, n) ==
    CHOOSE m \in n..(n + subTreeSize) :
        m % subTreeSize = 0 /\ \A k \in n..(m - 1) : k % subTreeSize # 0

\* the hashes of a batch followed by empty leaves up to the sub-tree boundary
PaddedHashes(subTreeSize, leaves) ==
    Hashes(leaves) \o [i \in 1..(PaddedLen(subTreeSize, Len(leaves)) - Len(leaves)) |-> Zero]

\* the frontier of a tree: what the code reads of it
Frontier(tree) == [root |-> tree.root, index |-> tree.index, siblings |-> tree.siblings]

\* the siblings column of a LightTree row, decoded
RowSiblings(row) ==
    LET arr == JSONparse(row.siblings) IN [k \in DOMAIN arr |-> FpFrom(arr[k])]

Applied == last.op = "applyGrovePatch" /\ last.err = "none"

C2_DryPatchIsPure ==
    last.op \in {"dryPatch", "getSnapshot"} =>
        /\ utxoTree = prev.utxoTree
        /\ withdrawalTree = prev.withdrawalTree
        /\ nullifierTree = prev.nullifierTree
        /\ treeCache = prev.treeCache
        /\ db = prev.db
        /\ tx = prev.tx
        /\ last.err = "none" => getSnapshot(Grove) = getSnapshot(prev)

C2_Witness ==
    /\ last.op = "dryPatch"
    /\ last.err = "none"
    /\ Len(last.patch.utxos) > 0
    /\ Len(last.patch.withdrawals) > 0
    /\ last.patch.nullifiers # {}
    /\ utxoTree.index > 0

C5_IndexWithinCapacity ==
    /\ utxoTree # NoTree => utxoTree.index <= Pow2(UtxoTreeDepth)
    /\ withdrawalTree # NoTree => withdrawalTree.index <= Pow2(WithdrawalTreeDepth)
    /\ (last.op = "applyGrovePatch" /\ last.err # "NotInitialized") =>
          LET uNew  == prev.utxoTree.index
                         + PaddedLen(UtxoSubTreeSize, Len(last.patch.utxos))
              wNew  == prev.withdrawalTree.index
                         + PaddedLen(WithdrawalSubTreeSize, Len(last.patch.withdrawals))
              uFits == uNew <= Pow2(UtxoTreeDepth)
              wFits == wNew <= Pow2(WithdrawalTreeDepth)
          IN  /\ uFits <=> last.err # "TreeFull:utxo"
              /\ uFits => utxoTree.index = uNew
              /\ ~uFits => utxoTree.index = prev.utxoTree.index
              /\ uFits => (wFits <=> last.err # "TreeFull:withdrawal")
              /\ (uFits /\ wFits) => (withdrawalTree.index = wNew /\ last.err = "none")
              /\ ~(uFits /\ wFits) => withdrawalTree.index = prev.withdrawalTree.index

\* a batch that fills the UTXO tree to exactly 2^D has been appended
C5_Witness ==
    /\ Applied
    /\ prev.utxoTree.index < Pow2(UtxoTreeDepth)
    /\ utxoTree.index = Pow2(UtxoTreeDepth)

\* C6: when applyGrovePatch fails with TreeFull, the frontier of both trees and
\* the nullifier tree are as they were before the call.
C6_TreeFullLeavesStateUnchanged ==
    (last.op = "applyGrovePatch"
        /\ last.err \in {"TreeFull:utxo", "TreeFull:withdrawal"}) =>
        /\ Frontier(utxoTree) = Frontier(prev.utxoTree)
        /\ Frontier(withdrawalTree) = Frontier(prev.withdrawalTree)
        /\ nullifierTree = prev.nullifierTree

\* C7: a successful applyGrovePatch moves the index of each tree on by the
\* sub-tree size times ceil(n / sub-tree size), the i-th leaf of the batch
\* (from 0) sits at oldIndex + i, and a tracked UTXO is recorded at that index.
C7_IndexAdvancesBySubTrees ==
    Applied =>
        /\ utxoTree.index = prev.utxoTree.index
                              + PaddedLen(UtxoSubTreeSize, Len(last.patch.utxos))
        /\ withdrawalTree.index =
              prev.withdrawalTree.index
                  + PaddedLen(WithdrawalSubTreeSize, Len(last.patch.withdrawals))
        /\ \A i \in DOMAIN last.patch.utxos :
              /\ utxoTree.leaves[prev.utxoTree.index + i] = last.patch.utxos[i].hash
              /\ last.patch.utxos[i].shouldTrack =>
                    \E r \in tx.utxo :
                        /\ r.hash = toString10(last.patch.utxos[i].hash)
                        /\ FpFrom(r.index) = prev.utxoTree.index + i - 1
        /\ \A i \in DOMAIN last.patch.withdrawals :
              withdrawalTree.leaves[prev.withdrawalTree.index + i]
                  = last.patch.withdrawals[i].hash

C7_Witness ==
    /\ Applied
    /\ prev.utxoTree.index = UtxoSubTreeSize
    /\ Len(last.patch.utxos) = 1
    /\ last.patch.utxos[1].shouldTrack
    /\ prev.withdrawalTree.index = 0
    /\ Len(last.patch.withdrawals) = 1

\* the leaves of `after` are those of `before` followed by appended ones, one
\* for every index in between
IndexGrows(before, after) ==
    /\ after.index >= before.index
    /\ Len(after.leaves) = after.index
    /\ SubSeq(after.leaves, 1, Len(before.leaves)) = before.leaves

C9_DryIndexIsFinalIndex ==
    (last.op = "dryPatch" /\ last.err = "none") =>
        LET u == dryAppend("UTXO", prev.utxoTree, Untracked(last.patch.utxos))
            w == dryAppend("WITHDRAWAL", prev.withdrawalTree,
                           Untracked(last.patch.withdrawals))
            un == Len(last.patch.utxos)
            wn == Len(last.patch.withdrawals)
        IN  /\ last.result.utxoTreeIndex
                  = u.index + PaddedLen(UtxoSubTreeSize, un) - un
            /\ last.result.utxoTreeIndex
                  = prev.utxoTree.index + PaddedLen(UtxoSubTreeSize, un)
            /\ last.result.withdrawalTreeIndex
                  = w.index + PaddedLen(WithdrawalSubTreeSize, wn) - wn
            /\ last.result.withdrawalTreeIndex
                  = prev.withdrawalTree.index + PaddedLen(WithdrawalSubTreeSize, wn)

\* C9 as stated: the reported index is dryIndex + paddedLen - rawLen and is
\* the index at which the first padding leaf would live (oldIndex + rawLen).
C9_DryIndexIsFirstPaddingLeaf ==
    (last.op = "dryPatch" /\ last.err = "none") =>
        LET u == dryAppend("UTXO", prev.utxoTree, Untracked(last.patch.utxos))
            w == dryAppend("WITHDRAWAL", prev.withdrawalTree,
                           Untracked(last.patch.withdrawals))
            un == Len(last.patch.utxos)
            wn == Len(last.patch.withdrawals)
        IN  /\ last.result.utxoTreeIndex
                  = u.index + PaddedLen(UtxoSubTreeSize, un) - un
            /\ last.result.utxoTreeIndex = prev.utxoTree.index + un
            /\ last.result.withdrawalTreeIndex
                  = w.index + PaddedLen(WithdrawalSubTreeSize, wn) - wn
            /\ last.result.withdrawalTreeIndex = prev.withdrawalTree.index + wn

C9_Witness ==
    /\ last.op = "dryPatch"
    /\ last.err = "none"
    /\ Len(last.patch.utxos) = 1
    /\ prev.utxoTree.index = UtxoSubTreeSize
    /\ last.result.utxoTreeIndex = 2 * UtxoSubTreeSize

\* C10: init creates, for a species without a LightTree row, the genesis row
\* (root preHash[D], index 0, siblings preHash[0..D-1], start = end = 0) and
\* the snapshot then shows that root and index 0; for a species with a row it
\* leaves the row as it is and takes the tree from it.
C10_InitGenesisOrRehydrate ==
    last.op = "init" =>
        /\ \A species \in Species :
              LET before == prev.db.lightTree[species]
                  after  == db.lightTree[species]
                  tree   == IF species = "UTXO" THEN utxoTree ELSE withdrawalTree
                  depth  == DepthOf(species)
              IN  /\ after.species = species
                  /\ before.species = "none" =>
                        /\ FpFrom(after.root) = PreHash(depth)
                        /\ FpFrom(after.index) = 0
                        /\ RowSiblings(after) = [k \in 1..depth |-> PreHash(k - 1)]
                        /\ FpFrom(after.start) = 0
                        /\ FpFrom(after.end) = 0
                  /\ before.species # "none" => after = before
                  /\ tree.root = FpFrom(after.root)
                  /\ tree.index = FpFrom(after.index)
                  /\ tree.siblings = RowSiblings(after)
        /\ prev.db.lightTree["UTXO"].species = "none" =>
              /\ getSnapshot(Grove).utxoTreeRoot = PreHash(UtxoTreeDepth)
              /\ getSnapshot(Grove).utxoTreeIndex = 0

\* init on a new Grove over a store whose UTXO row holds appended leaves
C10_Witness ==
    /\ last.op = "init"
    /\ prev.utxoTree = NoTree
    /\ prev.db.lightTree["UTXO"].species = "UTXO"
    /\ utxoTree.index = UtxoSubTreeSize

(***************************************************************************)
(* Bootstrap, crash safety, initialisation and nullifiers                  *)
(***************************************************************************)
\* a proof is the starting-leaf proof of the tree of its leaves, a tree that
\* has a leaf to start at
ValidStartingProof(depth, proof) ==
    /\ Len(proof.leaves) < maxSize(depth)
    /\ proof = StartingProof(depth, proof.leaves)

BothProofsValid ==
    /\ ValidStartingProof(UtxoTreeDepth, last.result.utxoProof)
    /\ ValidStartingProof(WithdrawalTreeDepth, last.result.withdrawalProof)

\* C11: applyBootstrap on a fresh Grove with valid starting-leaf proofs makes
\* (root, index, siblings) of each tree those of its proof, and getSnapshot
\* then reports the UTXO proof's index and root; with a proof that is not
\* valid the call fails with InvalidBootstrapProof.
C11_BootstrapTakesProof ==
    last.op = "applyBootstrap" =>
        IF BothProofsValid
        THEN /\ last.err = "none"
             /\ Frontier(utxoTree) = ProofFrontier(last.result.utxoProof)
             /\ Frontier(withdrawalTree) = ProofFrontier(last.result.withdrawalProof)
             /\ getSnapshot(Grove).utxoTreeIndex = last.result.utxoProof.index
             /\ getSnapshot(Grove).utxoTreeRoot = last.result.utxoProof.root
        ELSE last.err = "InvalidBootstrapProof"

\* a bootstrap of a new Grove at a UTXO index that is not 0
C11_Witness ==
    /\ last.op = "applyBootstrap"
    /\ last.err = "none"
    /\ prev.utxoTree = NoTree
    /\ last.result.utxoProof.index = MaxBootstrapIndex
    /\ utxoTree.index = MaxBootstrapIndex

\* the frontier a LightTree row holds
RowFrontier(row) ==
    IF row.species = "none"
    THEN NoFrontier
    ELSE [root |-> FpFrom(row.root), index |-> FpFrom(row.index),
          siblings |-> RowSiblings(row)]

TreeOf(species) == IF species = "UTXO" THEN utxoTree ELSE withdrawalTree

\* C12: whatever patches were committed or lost by a crash, the persisted
\* LightTree rows hold the frontier of the state after the last committed
\* write, a patch that is not committed leaves them as they were, and init on
\* the re-opened store gives each tree that root, index and siblings.
C12_CrashSafety ==
    /\ \A species \in Species :
          RowFrontier(db.lightTree[species]) = committed.frontier[species]
    /\ last.op = "applyGrovePatch" => db = prev.db
    /\ last.op = "init" =>
          \A species \in Species : Frontier(TreeOf(species)) = committed.frontier[species]

\* init on a re-opened store after one patch was committed and a later one lost
C12_Witness ==
    /\ last.op = "init"
    /\ prev.utxoTree = NoTree
    /\ committed.lost
    /\ utxoTree.index = UtxoSubTreeSize
    /\ utxoTree.root # PreHash(UtxoTreeDepth)

\* C16: applyGrovePatch and a proof query on a Grove that had neither init nor
\* applyBootstrap fail with NotInitialized, whatever the patch or the hash
\* (a hash without a row included).
C16_UninitialisedIsNotInitialized ==
    (last.op \in {"applyGrovePatch", "utxoMerkleProof"} /\ prev.utxoTree = NoTree) =>
        last.err = "NotInitialized"

\* C17: the bit of key k in the nullifier tree is 1 exactly when k was among
\* the nullifiers of a patch that nullify was run for (a committed one, or the
\* one just applied); the persisted bits are those of the committed patches;
\* dryPatch (dryRunNullify) and getSnapshot set no bit.
C17_NullifierBits ==
    /\ nullifierTree.present =>
          \A k \in NullifierKeys :
              k \in nullifierTree.bits <=>
                  \/ k \in committed.nullified
                  \/ Applied /\ k \in last.patch.nullifiers
    /\ db.nullifier = committed.nullified
    /\ last.op \in {"dryPatch", "getSnapshot"} =>
          /\ nullifierTree = prev.nullifierTree
          /\ db.nullifier = prev.db.nullifier
          /\ tx.nullifier = prev.tx.nullifier

\* a patch sets a second key after an earlier patch with another key was committed
C17_Witness ==
    /\ Applied
    /\ committed.nullified # {}
    /\ last.patch.nullifiers # {}
    /\ last.patch.nullifiers \cap committed.nullified = {}
    /\ nullifierTree.bits = committed.nullified \cup last.patch.nullifiers

\* the appends of the last patch had room in both trees
LastPatchFits ==
    /\ prev.utxoTree # NoTree
    /\ prev.withdrawalTree # NoTree
    /\ prev.utxoTree.index + PaddedLen(UtxoSubTreeSize, Len(last.patch.utxos))
          <= maxSize(UtxoTreeDepth)
    /\ prev.withdrawalTree.index
          + PaddedLen(WithdrawalSubTreeSize, Len(last.patch.withdrawals))
          <= maxSize(WithdrawalTreeDepth)

\* C18: nullifying keys that are all set does not raise and leaves the
\* nullifier root as it was, dryRunNullify of such keys gives the current
\* root, and nullifying (or dry-running) a key that is not set gives another
\* root.
C18_NullifyIdempotent ==
    /\ (last.op = "applyGrovePatch" /\ LastPatchFits /\ prev.nullifierTree.present) =>
          /\ last.err = "none"
          /\ last.patch.nullifiers \subseteq prev.nullifierTree.bits =>
                NullifierRoot(nullifierTree.bits) = NullifierRoot(prev.nullifierTree.bits)
          /\ ~(last.patch.nullifiers \subseteq prev.nullifierTree.bits) =>
                NullifierRoot(nullifierTree.bits) # NullifierRoot(prev.nullifierTree.bits)
    /\ (last.op = "dryPatch" /\ last.err = "none" /\ nullifierTree.present) =>
          (last.patch.nullifiers \subseteq nullifierTree.bits
              <=> last.result.nullifierTreeRoot = NullifierRoot(nullifierTree.bits))

\* a patch nullifies again a key that an earlier patch had set
C18_Witness ==
    /\ Applied
    /\ last.patch.nullifiers # {}
    /\ last.patch.nullifiers \subseteq prev.nullifierTree.bits
    /\ nullifierTree.bits = prev.nullifierTree.bits

\* dryPatch with a key that is already set
C18_DryWitness ==
    /\ last.op = "dryPatch"
    /\ last.err = "none"
    /\ last.patch.nullifiers # {}
    /\ last.patch.nullifiers \subseteq nullifierTree.bits

(***************************************************************************)
(* The frontier invariant (spec.md 3, invariant 1)                         *)
(***************************************************************************)
\* the empty leaf at position index folded up: on a right child with the
\* frontier sibling of the level, on a left child with the empty subtree
RECURSIVE FoldFrom(_, _, _, _)
FoldFrom(node, siblings, index, level) ==
    IF level = Len(siblings)
    THEN node
    ELSE FoldFrom(IF Bit(index, level) = 1
                  THEN parentOf(siblings[level + 1], node)
                  ELSE parentOf(node, PreHash(level)),
                  siblings, index, level + 1)

foldFrontier(siblings, index) == FoldFrom(PreHash(0), siblings, index, 0)

FrontierFolds(f) == f.root = foldFrontier(f.siblings, f.index)

C20_BootstrapAllOrNothing ==
    (last.op = "applyBootstrap" /\ last.err = "InvalidBootstrapProof") =>
        /\ db.lightTree = prev.db.lightTree
        /\ utxoTree = prev.utxoTree
        /\ withdrawalTree = prev.withdrawalTree

(***************************************************************************)
(* Concurrent calls (spec.md 5): every call is a task of awaited steps;    *)
(* init, applyBootstrap, applyGrovePatch and dryPatch run their bodies     *)
(* inside lock.acquire('grove', ...), the proof queries take no lock.      *)
(***************************************************************************)
TaskIds == {"init", "bootstrap", "apply", "dry", "proof"}

IdleTask == [pc |-> "idle", patch |-> EmptyPatch, got |-> <<>>, err |-> "none"]

\* the patches of the concurrent calls: one UTXO that is tracked
AsyncPatches ==
    {[header |-> NoHeader, utxos |-> u, withdrawals |-> <<>>, nullifiers |-> {}] :
        u \in {<<[hash |-> <<utxoTree.index + 1>>, shouldTrack |-> TRUE]>>}}

\* the hash the proof query asks for: the first leaf the patches append
AsyncQueryHash == <<1>>

\* a starting-leaf proof with a wrong root
InvalidProof(depth) == [StartingProof(depth, <<>>) EXCEPT !.root = Zero]

\* a dryPatch that runs outside the lock
lockKeyOfDryFree(op) == IF op \in {"init", "bootstrap", "apply"} THEN "grove" ELSE "none"

\* the key a call passes to lock.acquire
lockKeyOf(op) == IF op \in {"init", "bootstrap", "apply", "dry"} THEN "grove" ELSE "none"

\* AsyncLock: acquire runs the callback at once when nobody holds the key and
\* queues it otherwise; when a callback settles the first of the queue runs
Acquire(l, t) ==
    IF l.holder = "none" THEN [l EXCEPT !.holder = t] ELSE [l EXCEPT !.queue = Append(@, t)]

\* a lock that hands the key to the call that asked last
ReleaseNewest(l) ==
    IF l.queue = <<>>
    THEN [l EXCEPT !.holder = "none"]
    ELSE [holder |-> l.queue[Len(l.queue)], queue |-> SubSeq(l.queue, 1, Len(l.queue) - 1)]

Release(l) ==
    IF l.queue = <<>>
    THEN [l EXCEPT !.holder = "none"]
    ELSE [holder |-> Head(l.queue), queue |-> Tail(l.queue)]

\* a lock that stays taken when the callback throws
LockAfterKeptOnThrow(l, err) == IF err = "none" THEN Release(l) ELSE l

\* the lock after the callback has settled with err
LockAfter(l, err) == Release(l)

Exit(t, err) == IF lockKeyOf(t) = "grove" THEN LockAfter(lock, err) ELSE lock

\* the callback of task t may start
Granted(t) == tasks[t].pc = "waiting" /\ (lockKeyOf(t) = "none" \/ lock.holder = t)

RegionPcs == {"initUtxo", "appendedUtxos", "appendedWithdrawals", "dryUtxo"}

InLockedRegion(t) == tasks[t].pc \in RegionPcs

UnchangedHistory == UNCHANGED <<bootstrapped, committed, last, prev>>

\* the transaction of a patch that threw is dropped by the caller
Discarded(g) == [g EXCEPT !.tx = g.db]

InitAsync ==
    /\ utxoTree = NoTree
    /\ withdrawalTree = NoTree
    /\ nullifierTree = NoNullifierTree
    /\ treeCache = [s \in Species |-> NoNodes]
    /\ fullSync = FALSE
    /\ observed = NobodyObserved
    /\ db = EmptyDB
    /\ tx = EmptyDB
    /\ bootstrapped = FALSE
    /\ committed = NothingCommitted
    /\ tasks = [t \in TaskIds |-> IdleTask]
    /\ lock = FreeLock
    /\ last = IdleLast
    /\ prev = NoPrev

\* a call of init, applyBootstrap, applyGrovePatch or dryPatch reaches lock.acquire
Call(t, patch) ==
    /\ tasks[t].pc = "idle"
    /\ tasks' = [tasks EXCEPT ![t] = [IdleTask EXCEPT !.pc = "waiting", !.patch = patch]]
    /\ lock' = IF lockKeyOf(t) = "grove" THEN Acquire(lock, t) ELSE lock
    /\ UnchangedGrove
    /\ UnchangedHistory

\* init: the UTXO tree
InitUtxo ==
    /\ Granted("init")
    /\ \E g \in {treeFromData("UTXO", ensureTreeData("UTXO", Grove))} : SetGrove(g)
    /\ tasks' = [tasks EXCEPT !["init"].pc = "initUtxo"]
    /\ UNCHANGED lock
    /\ UnchangedHistory

\* init: the Withdrawal tree and the nullifier tree
InitRest ==
    /\ tasks["init"].pc = "initUtxo"
    /\ \E g \in {newNullifierTree(
                   treeFromData("WITHDRAWAL", ensureTreeData("WITHDRAWAL", Grove)))} :
          SetGrove(g)
    /\ tasks' = [tasks EXCEPT !["init"].pc = "done"]
    /\ lock' = Exit("init", "none")
    /\ UnchangedHistory

\* applyBootstrap with a UTXO proof that is rejected
BootstrapRejected ==
    /\ Granted("bootstrap")
    /\ \E g \in {applyBootstrap(Grove, InvalidProof(UtxoTreeDepth),
                                  StartingProof(WithdrawalTreeDepth, <<>>))} :
          /\ SetGrove(g)
          /\ tasks' = [tasks EXCEPT !["bootstrap"].pc = "failed",
                                    !["bootstrap"].err = g.err]
          /\ lock' = Exit("bootstrap", g.err)
    /\ UnchangedHistory

\* one awaited step of applyGrovePatch: g is the Grove after it
ApplyStepTo(g, pc) ==
    IF g.err = "none"
    THEN /\ SetGrove(g)
         /\ tasks' = [tasks EXCEPT !["apply"].pc = pc]
         /\ lock' = IF pc = "applied" THEN Exit("apply", "none") ELSE lock
    ELSE /\ SetGrove(Discarded(g))
         /\ tasks' = [tasks EXCEPT !["apply"].pc = "failed", !["apply"].err = g.err]
         /\ lock' = Exit("apply", g.err)

ApplyAppendUTXOs ==
    /\ Granted("apply")
    /\ \E g \in {appendUTXOs(Grove, tasks["apply"].patch.utxos)} :
          ApplyStepTo(g, "appendedUtxos")
    /\ UnchangedHistory

ApplyAppendWithdrawals ==
    /\ tasks["apply"].pc = "appendedUtxos"
    /\ \E g \in {appendWithdrawals(Grove, tasks["apply"].patch.withdrawals)} :
          ApplyStepTo(g, "appendedWithdrawals")
    /\ UnchangedHistory

ApplyMarkAsNullified ==
    /\ tasks["apply"].pc = "appendedWithdrawals"
    /\ \E g \in {thenRecordBootstrap(
                       markAsNullified(Grove, tasks["apply"].patch.nullifiers),
                       tasks["apply"].patch)} :
          ApplyStepTo(g, "applied")
    /\ UnchangedHistory

\* the caller commits the transaction of the patch
CommitApply ==
    /\ tasks["apply"].pc = "applied"
    /\ db' = tx
    /\ tasks' = [tasks EXCEPT !["apply"] = IdleTask]
    /\ UNCHANGED <<utxoTree, withdrawalTree, nullifierTree, treeCache, fullSync, observed, tx, lock>>
    /\ UnchangedHistory

\* dryPatch: the dry append to the UTXO tree
DryUtxo ==
    /\ Granted("dry")
    /\ IF utxoTree = NoTree \/ withdrawalTree = NoTree
       THEN /\ tasks' = [tasks EXCEPT !["dry"].pc = "failed", !["dry"].err = "TypeError"]
            /\ lock' = Exit("dry", "TypeError")
       ELSE /\ tasks' = [tasks EXCEPT !["dry"].pc = "dryUtxo",
                                      !["dry"].got = dryPatch(Grove, tasks["dry"].patch)]
            /\ UNCHANGED lock
    /\ UnchangedGrove
    /\ UnchangedHistory

\* dryPatch: the dry append to the Withdrawal tree and the dry nullifier run;
\* `expected` is the dryPatch of the state the call returns in
DryRest ==
    /\ tasks["dry"].pc = "dryUtxo"
    /\ tasks' = [tasks EXCEPT
          !["dry"].pc = "done",
          !["dry"].got =
              [result   |-> [dryPatch(Grove, tasks["dry"].patch) EXCEPT
                                !.utxoTreeIndex = tasks["dry"].got.utxoTreeIndex,
                                !.utxoTreeRoot = tasks["dry"].got.utxoTreeRoot],
               expected |-> dryPatch(Grove, tasks["dry"].patch)]]
    /\ lock' = Exit("dry", "none")
    /\ UnchangedGrove
    /\ UnchangedHistory

\* utxoMerkleProof: findOne of the Utxo row
ProofFindOne ==
    /\ tasks["proof"].pc = "idle"
    /\ LET found == {r \in db.utxo : r.hash = toString10(AsyncQueryHash)}
       IN  tasks' = [tasks EXCEPT !["proof"] =
              IF found = {}
              THEN [IdleTask EXCEPT !.pc = "failed", !.err = "LeafNotFound"]
              ELSE IF (CHOOSE r \in found : TRUE).index.fmt = "null"
              THEN [IdleTask EXCEPT !.pc = "failed", !.err = "LeafNotCommitted"]
              ELSE [IdleTask EXCEPT !.pc = "found",
                                    !.got = [utxo |-> CHOOSE r \in found : TRUE]]]
    /\ UNCHANGED lock
    /\ UnchangedGrove
    /\ UnchangedHistory

\* utxoMerkleProof: getCachedSiblings; `rootThen` is the root of the tree the
\* siblings belong to
ProofGetCachedSiblings ==
    /\ tasks["proof"].pc = "found"
    /\ tasks' = [tasks EXCEPT !["proof"] =
          IF utxoTree = NoTree
          THEN [@ EXCEPT !.pc = "failed", !.err = "TypeError"]
          ELSE [@ EXCEPT !.pc = "gotSiblings",
                         !.got = [utxo           |-> @.utxo,
                                  cachedSiblings |-> getCachedSiblings(
                                      Grove, "UTXO", UtxoTreeDepth, FpFrom(@.utxo.index)),
                                  rootThen       |-> utxoTree.root]]]
    /\ UNCHANGED lock
    /\ UnchangedGrove
    /\ UnchangedHistory

ProofOf(got, treeRoot) ==
    [root     |-> RootFrom(UtxoTreeDepth, got.cachedSiblings, treeRoot),
     index    |-> FpFrom(got.utxo.index),
     leaf     |-> FpFrom(got.utxo.hash),
     siblings |-> SiblingsFrom(UtxoTreeDepth, got.cachedSiblings)]

\* utxoMerkleProof: this.utxoTree.root(), the proof and verifyProof
ProofVerify ==
    /\ tasks["proof"].pc = "gotSiblings"
    /\ tasks' = [tasks EXCEPT !["proof"] =
          [pc    |-> IF verifyProof(ProofOf(@.got, utxoTree.root)) THEN "done" ELSE "failed",
           patch |-> @.patch,
           err   |-> IF verifyProof(ProofOf(@.got, utxoTree.root))
                     THEN "none" ELSE "ProofUnavailable",
           got   |-> [proof    |-> ProofOf(@.got, utxoTree.root),
                      rootThen |-> @.got.rootThen]]]
    /\ UNCHANGED lock
    /\ UnchangedGrove
    /\ UnchangedHistory

\* a DB call of the callback that holds the lock rejects
DbError(t) ==
    /\ lockKeyOf(t) = "grove"
    /\ Granted(t) \/ InLockedRegion(t)
    /\ tasks' = [tasks EXCEPT ![t].pc = "failed", ![t].err = "DBError"]
    /\ lock' = Exit(t, "DBError")
    /\ tx' = IF t = "apply" THEN db ELSE tx
    /\ UNCHANGED <<utxoTree, withdrawalTree, nullifierTree, treeCache, fullSync, observed, db>>
    /\ UnchangedHistory

\* the caller takes the result or the error; init is called once
TaskReturn(t) ==
    /\ t # "init"
    /\ tasks[t].pc \in {"done", "failed"}
    /\ tasks' = [tasks EXCEPT ![t] = IdleTask]
    /\ UNCHANGED lock
    /\ UnchangedGrove
    /\ UnchangedHistory

\* the steps of the callback that holds the lock
LockedStep ==
    \/ InitUtxo
    \/ InitRest
    \/ BootstrapRejected
    \/ ApplyAppendUTXOs
    \/ ApplyAppendWithdrawals
    \/ ApplyMarkAsNullified
    \/ DryUtxo
    \/ DryRest

\* the calls that go through the lock, and their callers
NextLocked ==
    \/ Call("init", EmptyPatch)
    \/ Call("bootstrap", EmptyPatch)
    \/ \E patch \in AsyncPatches : Call("apply", patch)
    \/ Call("dry", EmptyPatch)
    \/ LockedStep
    \/ CommitApply
    \/ \E t \in TaskIds : DbError(t)
    \/ \E t \in TaskIds : TaskReturn(t)

NextAsync ==
    \/ NextLocked
    \/ ProofFindOne
    \/ ProofGetCachedSiblings
    \/ ProofVerify

SpecAsync == InitAsync /\ [][NextAsync]_vars

\* every DB call returns: the callback that holds the lock keeps stepping
SpecLockedFair == InitAsync /\ [][NextLocked]_vars /\ WF_vars(LockedStep)

(***************************************************************************)
(* Scheduling (spec.md 5)                                                  *)
(***************************************************************************)
\* C13: at most one of init, applyBootstrap, applyGrovePatch and dryPatch is
\* inside its locked region at a time, and what dryPatch / getSnapshot
\* returns is the dry run of one state of the Grove, the one it returns in.
C13_MutualExclusion ==
    /\ Cardinality({t \in TaskIds : InLockedRegion(t)}) <= 1
    /\ \A t \in TaskIds : InLockedRegion(t) => lock.holder = t
    /\ tasks["dry"].pc = "done" => tasks["dry"].got.result = tasks["dry"].got.expected

\* dryPatch is inside the lock of an initialised Grove that holds leaves while
\* applyGrovePatch waits for it
C13_Witness ==
    /\ tasks["dry"].pc = "dryUtxo"
    /\ tasks["apply"].pc = "waiting"
    /\ lock = [holder |-> "dry", queue |-> <<"apply">>]
    /\ utxoTree.index = UtxoSubTreeSize

\* C15: the proof a proof query builds while applyGrovePatch runs has the root
\* of the state its siblings were read in: it never joins siblings from before
\* an append with the root after it, and so never fails for that reason.
C15_ProofFromOneState ==
    (tasks["proof"].pc \in {"done", "failed"}
        /\ tasks["proof"].err \in {"none", "ProofUnavailable"}) =>
        tasks["proof"].got.proof.root = tasks["proof"].got.rootThen

\* the calls that go through lock.acquire
LockedOps == {t \in TaskIds : lockKeyOf(t) = "grove"}

\* C14: the lock is held only by a call whose callback is still to run or is
\* running, so every exit (return, TreeFull, not initialised, rejected
\* bootstrap proof, DB error) gives it up; and as the DB calls return, every
\* call that waits for the lock gets it.
C14_LockReleased ==
    /\ [](\A t \in TaskIds :
             lock.holder = t => (tasks[t].pc = "waiting" \/ InLockedRegion(t)))
    /\ \A t \in LockedOps : (tasks[t].pc = "waiting") ~> (lock.holder = t)

\* applyGrovePatch has thrown TreeFull and dryPatch, which waited behind it,
\* holds the lock with applyBootstrap next in the queue
C14_Witness ==
    /\ tasks["apply"].pc = "failed"
    /\ tasks["apply"].err = "TreeFull:utxo"
    /\ tasks["dry"].pc = "waiting"
    /\ lock = [holder |-> "dry", queue |-> <<"bootstrap">>]

(***************************************************************************)
(* Indices reported and reached (Grove.dryPatch, appendUTXOs,              *)
(* appendWithdrawals)                                                      *)
(***************************************************************************)
\* C28: the utxoTreeIndex and withdrawalTreeIndex dryPatch reports for a
\* patch in the state before it is applied are the latestLeafIndex of the trees
\* after applyGrovePatch of that patch, oldIndex + subTreeSize * ceil(rawLen /
\* subTreeSize); getSnapshot (the empty patch) reports the current indices.
C28_DryIndexIsIndexAfterApply ==
    /\ Applied =>
          /\ dryPatch(prev, last.patch).utxoTreeIndex = latestLeafIndex(utxoTree)
          /\ dryPatch(prev, last.patch).withdrawalTreeIndex
                = latestLeafIndex(withdrawalTree)
          /\ latestLeafIndex(utxoTree)
                = prev.utxoTree.index
                    + UtxoSubTreeSize * Ceil(Len(last.patch.utxos), UtxoSubTreeSize)
          /\ latestLeafIndex(withdrawalTree)
                = prev.withdrawalTree.index
                    + WithdrawalSubTreeSize
                        * Ceil(Len(last.patch.withdrawals), WithdrawalSubTreeSize)
    /\ (last.op = "getSnapshot" /\ last.err = "none") =>
          /\ last.result.utxoTreeIndex = latestLeafIndex(utxoTree)
          /\ last.result.withdrawalTreeIndex = latestLeafIndex(withdrawalTree)

\* a patch with one UTXO and one withdrawal was applied to trees that held
\* leaves: the padded lengths differ from the raw ones
C28_Witness ==
    /\ Applied
    /\ prev.utxoTree.index > 0
    /\ Len(last.patch.utxos) = 1
    /\ Len(last.patch.withdrawals) = 1
    /\ utxoTree.index = prev.utxoTree.index + UtxoSubTreeSize
    /\ withdrawalTree.index = WithdrawalSubTreeSize

\* C29: in a Grove started from genesis the index of each tree is a multiple
\* of its sub-tree size, in memory and in the persisted row, so every batch
\* starts on a sub-tree boundary; and whatever the index a tree was started
\* at, applyGrovePatch keeps it congruent modulo the sub-tree size.
C29_SubTreeAlignment ==
    /\ [](~bootstrapped =>
             /\ utxoTree.index % UtxoSubTreeSize = 0
             /\ withdrawalTree.index % WithdrawalSubTreeSize = 0
             /\ RowFrontier(db.lightTree["UTXO"]).index % UtxoSubTreeSize = 0
             /\ RowFrontier(db.lightTree["WITHDRAWAL"]).index
                   % WithdrawalSubTreeSize = 0)
    /\ [][last'.op = "applyGrovePatch" =>
             /\ utxoTree'.index % UtxoSubTreeSize = utxoTree.index % UtxoSubTreeSize
             /\ withdrawalTree'.index % WithdrawalSubTreeSize
                   = withdrawalTree.index % WithdrawalSubTreeSize]_vars

\* a batch of one UTXO was applied to a tree bootstrapped at an odd index
C29_Witness ==
    /\ Applied
    /\ bootstrapped
    /\ prev.utxoTree.index % UtxoSubTreeSize = 1
    /\ Len(last.patch.utxos) = 1
    /\ utxoTree.index % UtxoSubTreeSize = 1

(***************************************************************************)
(* Light-node mode (Grove.markAsNullified, Grove.dryPatch)                 *)
(***************************************************************************)
\* C24: in a Grove without a nullifier tree a patch with nullifiers that fits
\* is applied with success and does what the same patch without nullifiers
\* does; dryPatch and getSnapshot then report no nullifier root; after init
\* the nullifier tree is present and stays so for the life of the Grove.
C24_LightNodeMode ==
    /\ []((last.op = "applyGrovePatch" /\ LastPatchFits /\ ~prev.nullifierTree.present) =>
             /\ last.err = "none"
             /\ Grove = applyGrovePatch(prev, [last.patch EXCEPT !.nullifiers = {}]))
    /\ []((last.op \in {"dryPatch", "getSnapshot"} /\ last.err = "none"
              /\ ~nullifierTree.present) =>
             /\ ~last.result.hasNullifierRoot
             /\ last.result.nullifierTreeRoot = <<>>)
    /\ [](last.op = "init" => nullifierTree.present)
    /\ [][nullifierTree.present => (nullifierTree'.present \/ utxoTree' = NoTree)]_vars

\* a patch with a nullifier was applied to a bootstrapped Grove that has no
\* nullifier tree
C24_Witness ==
    /\ Applied
    /\ bootstrapped
    /\ ~nullifierTree.present
    /\ last.patch.nullifiers # {}
    /\ Len(last.patch.utxos) > 0
    /\ tx.nullifier = {}

\* dryPatch with a nullifier on a Grove without a nullifier tree
C24_DryWitness ==
    /\ last.op = "dryPatch"
    /\ last.err = "none"
    /\ ~nullifierTree.present
    /\ last.patch.nullifiers # {}

(***************************************************************************)
(* Proof queries over notes that are stored before they are committed      *)
(***************************************************************************)
\* blocks of at most one note and one withdrawal, each retained or not
ProofPatches ==
    {[header |-> NoHeader, utxos |-> u, withdrawals |-> w, nullifiers |-> {}] :
        u \in LeafLists(utxoTree, 1, BOOLEAN),
        w \in LeafLists(withdrawalTree, 1, BOOLEAN)}

\* A stored note is one a next block may carry; a withdrawal is queried
\* without an index or with any index of the tree.
NextProof ==
    \/ GroveInit
    \/ \E patch \in ProofPatches : ApplyGrovePatch(patch)
    \/ CommitTx
    \/ Crash
    \/ \E species \in Species : SaveNote(species, <<TreeOf(species).index + 1>>)
    \/ \E hash \in QueryHashes : UtxoMerkleProof(hash)
    \/ \E v \in 1..(Pow2(WithdrawalTreeDepth) + 1),
          index \in {NoIndex} \cup {[present |-> TRUE, val |-> i] :
                                      i \in 0..(Pow2(WithdrawalTreeDepth) - 1)} :
          WithdrawalMerkleProof(<<v>>, index)
    \/ Return

SpecProof == Init /\ [][NextProof]_vars

\* the rows of the queried leaf, and whether the call names its index itself
QueriedRows ==
    {r \in prev.db[IF last.op = "utxoMerkleProof" THEN "utxo" ELSE "withdrawal"] :
        FpFrom(r.hash) = last.result.hash}

ExplicitIndex == last.op = "withdrawalMerkleProof" /\ last.result.index.present

ProofQueried ==
    /\ last.op \in {"utxoMerkleProof", "withdrawalMerkleProof"}
    /\ prev.utxoTree # NoTree
    /\ prev.withdrawalTree # NoTree

\* C23: a proof query of an initialised Grove returns only a proof that
\* verifyProof accepts, for the queried leaf and against the current root of
\* its tree; otherwise it fails, in this order of precedence: LeafNotFound when
\* the leaf has no row, LeafNotCommitted when the row has no index (for
\* withdrawalMerkleProof only when the call names no index), ProofUnavailable
\* when the rebuilt proof does not verify.  A leaf committed at index 0 is
\* committed.
C23_ProofOrErrorInOrder ==
    ProofQueried =>
       /\ last.err \in {"none", "LeafNotFound", "LeafNotCommitted", "ProofUnavailable"}
       /\ (last.err = "LeafNotFound") <=> (QueriedRows = {})
       /\ (last.err = "LeafNotCommitted") <=>
             /\ QueriedRows # {}
             /\ ~ExplicitIndex
             /\ \A r \in QueriedRows : r.index = Null
       /\ (\E r \in QueriedRows : r.index = toString10(0)) =>
             last.err \in {"none", "ProofUnavailable"}
       /\ last.err = "none" =>
             /\ verifyProof(last.result.proof)
             /\ last.result.proof.leaf = last.result.hash
             /\ last.result.proof.root =
                   (IF last.op = "utxoMerkleProof"
                    THEN prev.utxoTree.root ELSE prev.withdrawalTree.root)
             /\ \/ ExplicitIndex /\ last.result.proof.index = last.result.index.val
                \/ \E r \in QueriedRows : r.index = toString10(last.result.proof.index)

\* a note committed at index 0 gets its proof
C23_Witness ==
    /\ ProofQueried
    /\ last.op = "utxoMerkleProof"
    /\ last.err = "none"
    /\ last.result.proof.index = 0

\* a withdrawal that is stored but not committed: refused without an index
C23_NotCommittedWitness ==
    /\ ProofQueried
    /\ last.op = "withdrawalMerkleProof"
    /\ last.err = "LeafNotCommitted"

\* the same withdrawal queried with an index of the caller
C23_ExplicitIndexWitness ==
    /\ ProofQueried
    /\ ExplicitIndex
    /\ \E r \in QueriedRows : r.index = Null
    /\ last.err \in {"none", "ProofUnavailable"}

(***************************************************************************)
(* Full-sync nodes: every applied block records a Bootstrap row            *)
(***************************************************************************)
\* the hashes of the blocks a patch may come from
BlockHashes == {"0xb1", "0xb2"}

\* most Bootstrap rows a run stages
MaxBootstrapRows == 3

\* a block carries at most one note and one withdrawal, and may carry none
FullSyncPatches ==
    {[header |-> h, utxos |-> u, withdrawals |-> w, nullifiers |-> {}] :
        h \in BlockHashes \cup {NoHeader},
        u \in LeafLists(utxoTree, 1, {FALSE}),
        w \in LeafLists(withdrawalTree, 1, {FALSE})}

\* config.fullSync is fixed at construction
InitFullSync ==
    /\ utxoTree = NoTree
    /\ withdrawalTree = NoTree
    /\ nullifierTree = NoNullifierTree
    /\ treeCache = [s \in Species |-> NoNodes]
    /\ fullSync \in BOOLEAN
    /\ observed = NobodyObserved
    /\ db = EmptyDB
    /\ tx = EmptyDB
    /\ bootstrapped = FALSE
    /\ committed = NothingCommitted
    /\ tasks = NoTasks
    /\ lock = FreeLock
    /\ last = IdleLast
    /\ prev = NoPrev

\* A transaction that stages a second Block row of one hash is committed when
\* the table takes it (CommitTx) and is rejected otherwise, which ends the
\* caller like any failed write (Crash).
NextFullSync ==
    \/ GroveInit
    \/ \E patch \in FullSyncPatches :
          Len(tx.bootstrap) < MaxBootstrapRows /\ ApplyGrovePatch(patch)
    \/ CommitTx
    \/ Crash
    \/ Return

SpecFullSync == InitFullSync /\ [][NextFullSync]_vars

\* the rows of a table that carry a value in a column
RowsWith(rows, key, value) == {i \in DOMAIN rows : rows[i][key] = value}

\* applyGrovePatch has run recordBootstrap for a block with a header
RecordedWithHeader ==
    /\ last.op = "applyGrovePatch"
    /\ last.err = "none"
    /\ prev.fullSync
    /\ last.patch.header # NoHeader

\* C26: when recordBootstrap is given a header whose Block row exists, the
\* upsert with the empty update leaves exactly one Block row of that hash and
\* raises no error.
C26_BlockUpsertIdempotent ==
    (RecordedWithHeader /\ RowsWith(prev.tx.block, "hash", last.patch.header) # {}) =>
        Cardinality(RowsWith(tx.block, "hash", last.patch.header)) = 1

\* what the code does instead: every recordBootstrap with a header stages one
\* more Block row of that hash
C26_BlockRowPerCall ==
    RecordedWithHeader =>
        Cardinality(RowsWith(tx.block, "hash", last.patch.header)) =
            Cardinality(RowsWith(prev.tx.block, "hash", last.patch.header)) + 1

C26_Witness ==
    /\ RecordedWithHeader
    /\ RowsWith(prev.tx.block, "hash", last.patch.header) # {}

\* the Bootstrap columns of the siblings the two trees have now
CurrentBootstrapData ==
    [utxoBootstrap |-> JSONstringify([k \in DOMAIN utxoTree.siblings |->
                                        hexify(utxoTree.siblings[k])]),
     withdrawalBootstrap |-> JSONstringify([k \in DOMAIN withdrawalTree.siblings |->
                                              hexify(withdrawalTree.siblings[k])])]

HoldsCurrentSiblings(row) ==
    /\ row.utxoBootstrap = CurrentBootstrapData.utxoBootstrap
    /\ row.withdrawalBootstrap = CurrentBootstrapData.withdrawalBootstrap

RecordedWithoutHeader ==
    /\ last.op = "applyGrovePatch"
    /\ last.err = "none"
    /\ prev.fullSync
    /\ last.patch.header = NoHeader

\* C25: there is at most one Bootstrap row per block hash: a full-sync patch
\* with a header leaves exactly one row of that blockHash, which holds the
\* latest siblings (a row the header already had is overwritten, no row is
\* added); a patch without header adds one new unkeyed row; with fullSync off
\* no Bootstrap or Block row is ever written.
C25_BootstrapRows ==
    /\ \A h \in BlockHashes : Cardinality(RowsWith(db.bootstrap, "blockHash", h)) <= 1
    /\ RecordedWithHeader =>
          /\ Cardinality(RowsWith(tx.bootstrap, "blockHash", last.patch.header)) = 1
          /\ \A i \in RowsWith(tx.bootstrap, "blockHash", last.patch.header) :
                HoldsCurrentSiblings(tx.bootstrap[i])
          /\ RowsWith(prev.tx.bootstrap, "blockHash", last.patch.header) # {} =>
                Len(tx.bootstrap) = Len(prev.tx.bootstrap)
    /\ RecordedWithoutHeader =>
          /\ Len(tx.bootstrap) = Len(prev.tx.bootstrap) + 1
          /\ tx.bootstrap[Len(tx.bootstrap)].blockHash = NoHeader
          /\ HoldsCurrentSiblings(tx.bootstrap[Len(tx.bootstrap)])
    /\ ~fullSync =>
          /\ db.bootstrap = <<>> /\ tx.bootstrap = <<>>
          /\ db.block = <<>> /\ tx.block = <<>>

\* what the code does: with or without header, every full-sync patch appends
\* one Bootstrap row of the latest siblings that carries no blockHash, and
\* leaves the rows before it as they are
C25_UnkeyedRowPerPatch ==
    /\ (RecordedWithHeader \/ RecordedWithoutHeader) =>
          /\ Len(tx.bootstrap) = Len(prev.tx.bootstrap) + 1
          /\ SubSeq(tx.bootstrap, 1, Len(prev.tx.bootstrap)) = prev.tx.bootstrap
          /\ tx.bootstrap[Len(tx.bootstrap)].blockHash = NoHeader
          /\ HoldsCurrentSiblings(tx.bootstrap[Len(tx.bootstrap)])
    /\ ~fullSync =>
          /\ db.bootstrap = <<>> /\ tx.bootstrap = <<>>
          /\ db.block = <<>> /\ tx.block = <<>>

\* a header is recorded a second time after the trees have grown
C25_Witness ==
    /\ RecordedWithHeader
    /\ RowsWith(prev.tx.block, "hash", last.patch.header) # {}
    /\ \E i \in DOMAIN prev.tx.bootstrap : ~HoldsCurrentSiblings(prev.tx.bootstrap[i])

(***************************************************************************)
(* Concurrent applyGrovePatch calls: the blocks of several callers, each   *)
(* applied step by step inside lock.acquire('grove', ...)                  *)
(***************************************************************************)
Appliers == {"block1", "block2", "block3"}

\* what is known of a call: the steps its callback has finished, the calls
\* that asked for the lock before it, and the UTXO indices its leaves took
NoRun == [steps |-> <<>>, after |-> {}, appended |-> FALSE, first |-> 0, next |-> 0]

\* the block of a caller: empty, or one note and one withdrawal
BlockPatches ==
    {[header |-> "0xb1", utxos |-> b.u, withdrawals |-> b.w, nullifiers |-> {}] :
        b \in {c \in [u : LeafLists(utxoTree, 1, {FALSE}),
                      w : LeafLists(withdrawalTree, 1, {FALSE})] : Len(c.u) = Len(c.w)}}

InitBlocks ==
    /\ utxoTree = NoTree
    /\ withdrawalTree = NoTree
    /\ nullifierTree = NoNullifierTree
    /\ treeCache = [s \in Species |-> NoNodes]
    /\ fullSync \in BOOLEAN
    /\ observed = NobodyObserved
    /\ db = EmptyDB
    /\ tx = EmptyDB
    /\ bootstrapped = FALSE
    /\ committed = NothingCommitted
    /\ tasks = [t \in Appliers |-> [IdleTask EXCEPT !.got = NoRun]]
    /\ lock = FreeLock
    /\ last = IdleLast
    /\ prev = NoPrev

\* applyGrovePatch(patch, tx) reaches lock.acquire
CallApply(t, patch) ==
    /\ last.op = "idle"
    /\ utxoTree # NoTree
    /\ tasks[t].pc = "idle"
    /\ Len(tx.bootstrap) + Cardinality({v \in Appliers : tasks[v].pc # "idle"})
          < MaxBootstrapRows
    /\ tasks' = [u \in Appliers |->
                   IF u = t
                   THEN [pc    |-> "waiting",
                         patch |-> patch,
                         got   |-> [NoRun EXCEPT
                                      !.after = {v \in Appliers : tasks[v].pc # "idle"}],
                         err   |-> "none"]
                   ELSE [tasks[u] EXCEPT !.got.after = @ \ {t}]]
    /\ lock' = Acquire(lock, t)
    /\ UnchangedGrove
    /\ UnchangedHistory

\* one awaited step of the callback of t: g is the Grove after it
StepTo(t, g, pc, step) ==
    IF g.err = "none"
    THEN /\ SetGrove(g)
         /\ tasks' = [tasks EXCEPT
                        ![t].pc = pc,
                        ![t].got = [@ EXCEPT
                           !.steps    = IF step = "recordBootstrap" /\ g.tx = tx
                                        THEN @ ELSE Append(@, step),
                           !.appended = @ \/ step = "appendUTXOs",
                           !.first    = IF step = "appendUTXOs" THEN utxoTree.index ELSE @,
                           !.next     = IF step = "appendUTXOs" THEN g.utxoTree.index ELSE @]]
         /\ lock' = IF pc = "applied" THEN LockAfter(lock, "none") ELSE lock
    ELSE /\ SetGrove(Discarded(g))
         /\ tasks' = [tasks EXCEPT ![t].pc = "failed", ![t].err = g.err]
         /\ lock' = LockAfter(lock, g.err)

StepAppendUTXOs(t) ==
    /\ tasks[t].pc = "waiting"
    /\ lock.holder = t
    /\ \E g \in {appendUTXOs(Grove, tasks[t].patch.utxos)} :
          StepTo(t, g, "appendedUtxos", "appendUTXOs")
    /\ UnchangedHistory

StepAppendWithdrawals(t) ==
    /\ tasks[t].pc = "appendedUtxos"
    /\ \E g \in {appendWithdrawals(Grove, tasks[t].patch.withdrawals)} :
          StepTo(t, g, "appendedWithdrawals", "appendWithdrawals")
    /\ UnchangedHistory

StepMarkAsNullified(t) ==
    /\ tasks[t].pc = "appendedWithdrawals"
    /\ \E g \in {markAsNullified(Grove, tasks[t].patch.nullifiers)} :
          StepTo(t, g, "nullified", "markAsNullified")
    /\ UnchangedHistory

\* the rest of the callback: recordBootstrap when config.fullSync is set
StepRecordBootstrap(t) ==
    /\ tasks[t].pc = "nullified"
    /\ \E g \in {thenRecordBootstrap(Grove, tasks[t].patch)} :
          StepTo(t, g, "applied", "recordBootstrap")
    /\ UnchangedHistory

\* the caller commits its batch once no callback is between two steps
CommitBlock(t) ==
    /\ tasks[t].pc = "applied"
    /\ lock.holder = "none"
    /\ db' = tx
    /\ tasks' = [tasks EXCEPT ![t] = [IdleTask EXCEPT !.got = NoRun]]
    /\ UNCHANGED <<utxoTree, withdrawalTree, nullifierTree, treeCache, fullSync, observed, tx, lock>>
    /\ UnchangedHistory

\* the caller takes the error of a patch that threw
BlockFailed(t) ==
    /\ tasks[t].pc = "failed"
    /\ tasks' = [tasks EXCEPT ![t] = [IdleTask EXCEPT !.got = NoRun]]
    /\ UNCHANGED lock
    /\ UnchangedGrove
    /\ UnchangedHistory

\* init is called once, before any block arrives
NextBlocks ==
    \/ utxoTree = NoTree /\ GroveInit
    \/ Return
    \/ \E t \in Appliers, patch \in BlockPatches : CallApply(t, patch)
    \/ \E t \in Appliers : StepAppendUTXOs(t)
    \/ \E t \in Appliers : StepAppendWithdrawals(t)
    \/ \E t \in Appliers : StepMarkAsNullified(t)
    \/ \E t \in Appliers : StepRecordBootstrap(t)
    \/ \E t \in Appliers : CommitBlock(t)
    \/ \E t \in Appliers : BlockFailed(t)

SpecBlocks == InitBlocks /\ [][NextBlocks]_vars

\* the steps of the callback of applyGrovePatch, in the order of the code
StepOrder == <<"appendUTXOs", "appendWithdrawals", "markAsNullified", "recordBootstrap">>

IsPrefix(s, t) == Len(s) <= Len(t) /\ s = SubSeq(t, 1, Len(s))

\* the callback of t finishes with this step
Finishing(t) == tasks[t].pc = "nullified" /\ tasks'[t].pc = "applied"

LastRow(rows) == rows[Len(rows)]

\* C21: within one applyGrovePatch the steps happen in the order UTXO append,
\* Withdrawal append, nullifier update, recordBootstrap, each after the one
\* before it has finished; recordBootstrap runs only, and then always, when
\* fullSync is set; and the Bootstrap row it stages holds the frontier
\* siblings both trees have after the appends of this patch.
C21_StepsInOrder ==
    /\ [](\A t \in Appliers :
            /\ IsPrefix(tasks[t].got.steps, StepOrder)
            /\ ("recordBootstrap" \in {tasks[t].got.steps[i] :
                                         i \in DOMAIN tasks[t].got.steps}) => fullSync
            /\ tasks[t].pc = "applied" =>
                  tasks[t].got.steps = SubSeq(StepOrder, 1, IF fullSync THEN 4 ELSE 3))
    /\ [][\A t \in Appliers :
            /\ tasks'[t].got.steps # tasks[t].got.steps =>
                  \/ tasks'[t].got.steps = <<>>
                  \/ Len(tasks'[t].got.steps) = Len(tasks[t].got.steps) + 1
            /\ (Finishing(t) /\ fullSync) =>
                  /\ utxoTree.index = tasks[t].got.next
                  /\ utxoTree.index = tasks[t].got.first +
                        PaddedLen(UtxoSubTreeSize, Len(tasks[t].patch.utxos))
                  /\ withdrawalTree' = withdrawalTree /\ utxoTree' = utxoTree
                  /\ Len(tx'.bootstrap) = Len(tx.bootstrap) + 1
                  /\ LastRow(tx'.bootstrap).utxoBootstrap =
                        JSONstringify([k \in 1..UtxoTreeDepth |->
                                         hexify(Frontier(utxoTree).siblings[k])])
                  /\ LastRow(tx'.bootstrap).withdrawalBootstrap =
                        JSONstringify([k \in 1..WithdrawalTreeDepth |->
                                         hexify(Frontier(withdrawalTree).siblings[k])])
            /\ (Finishing(t) /\ ~fullSync) => tx' = tx]_vars

\* a full-sync patch that appended to both trees has recorded its row, and
\* the siblings in it are not those of the row before
C21_Witness ==
    \E t \in Appliers :
       /\ fullSync
       /\ tasks[t].pc = "applied"
       /\ tasks[t].got.steps = StepOrder
       /\ tasks[t].got.next > tasks[t].got.first
       /\ Len(tx.bootstrap) >= 2
       /\ LastRow(tx.bootstrap).utxoBootstrap # tx.bootstrap[Len(tx.bootstrap) - 1].utxoBootstrap

\* C22: the lock is handed out in the order it was asked for, and the appends
\* follow that order: when applyGrovePatch(P1) asked for the lock before
\* applyGrovePatch(P2), every leaf of P1, padding included, has a lower UTXO
\* index than every leaf of P2, and the leaves of each patch are contiguous:
\* the tree holds the padded batch of a patch at the indices the patch took.
C22_AppendsInLockOrder ==
    /\ [](\A t2 \in Appliers : \A t1 \in tasks[t2].got.after :
            (tasks[t1].got.appended /\ tasks[t2].got.appended) =>
                tasks[t1].got.next <= tasks[t2].got.first)
    /\ [](\A t \in Appliers :
            tasks[t].got.appended =>
               /\ tasks[t].got.next = tasks[t].got.first +
                     PaddedLen(UtxoSubTreeSize, Len(tasks[t].patch.utxos))
               /\ SubSeq(utxoTree.leaves, tasks[t].got.first + 1, tasks[t].got.next) =
                     PaddedHashes(UtxoSubTreeSize, tasks[t].patch.utxos))
    /\ [][\A t \in Appliers :
            (tasks[t].pc = "waiting" /\ tasks'[t].pc # "waiting") =>
                \A t1 \in tasks[t].got.after : tasks[t1].pc \in {"applied", "failed", "idle"}]_vars

\* two patches with leaves were waiting for the lock together and both have
\* appended
C22_Witness ==
    \E t1, t2 \in Appliers :
       /\ t1 \in tasks[t2].got.after
       /\ tasks[t1].got.appended /\ tasks[t2].got.appended
       /\ tasks[t1].got.next > tasks[t1].got.first
       /\ tasks[t2].got.next > tasks[t2].got.first

(***************************************************************************)
(* Observation policy (spec.md 4.3): which leaves keep their paths         *)
(***************************************************************************)
\* a setZkAddressesToObserve that starts the frontier of the tree afresh
setZkAddressesToObserveRestarting(g, addresses) ==
    IF g.utxoTree = NoTree
    THEN [g EXCEPT !.err = "TypeError"]
    ELSE [g EXCEPT !.observed["UTXO"] = addresses,
                   !.utxoTree.siblings = [k \in 1..UtxoTreeDepth |-> PreHash(k - 1)]]

\* Grove.setZkAddressesToObserve: utxoTree.updatePubKeys(addresses) replaces
\* the predicate of the tree; config.zkAddressesToObserve is read nowhere
setZkAddressesToObserve(g, addresses) ==
    IF g.utxoTree = NoTree
    THEN [g EXCEPT !.err = "TypeError"]
    ELSE [g EXCEPT !.observed["UTXO"] = addresses]

\* Grove.setAddressesToObserve: withdrawalTree.updateAddresses(addresses)
setAddressesToObserve(g, addresses) ==
    IF g.withdrawalTree = NoTree
    THEN [g EXCEPT !.err = "TypeError"]
    ELSE [g EXCEPT !.observed["WITHDRAWAL"] = addresses]

SetZkAddressesToObserve(addresses) ==
    /\ Idle
    /\ \E g \in {setZkAddressesToObserve(Grove, addresses)} :
          /\ SetGrove(g)
          /\ last' = [op |-> "setZkAddressesToObserve", err |-> g.err,
                      patch |-> EmptyPatch, result |-> addresses]
    /\ prev' = Grove
    /\ UNCHANGED <<bootstrapped, committed, asyncVars>>

SetAddressesToObserve(addresses) ==
    /\ Idle
    /\ \E g \in {setAddressesToObserve(Grove, addresses)} :
          /\ SetGrove(g)
          /\ last' = [op |-> "setAddressesToObserve", err |-> g.err,
                      patch |-> EmptyPatch, result |-> addresses]
    /\ prev' = Grove
    /\ UNCHANGED <<bootstrapped, committed, asyncVars>>

\* blocks of at most two notes and one withdrawal, each leaf with or without
\* shouldTrack
ObservePatches ==
    {[header |-> NoHeader, utxos |-> u, withdrawals |-> w, nullifiers |-> {}] :
        u \in LeafLists(utxoTree, MaxUtxos, BOOLEAN),
        w \in LeafLists(withdrawalTree, MaxWithdrawals, BOOLEAN)}

NextObserve ==
    \/ GroveInit
    \/ \E addresses \in SUBSET Addresses : SetZkAddressesToObserve(addresses)
    \/ \E addresses \in SUBSET Addresses : SetAddressesToObserve(addresses)
    \/ \E patch \in ObservePatches : ApplyGrovePatch(patch)
    \/ CommitTx
    \/ Crash
    \/ GetSnapshot
    \/ Return

SpecObserve == Init /\ [][NextObserve]_vars

\* the batch with every shouldTrack flag set to f
Reflagged(leaves, f) == [i \in DOMAIN leaves |-> [leaves[i] EXCEPT !.shouldTrack = f]]

\* the Grove that some other policy makes of the patch just applied: other
\* observed addresses and other shouldTrack flags on the same leaves
OtherPolicies ==
    {applyGrovePatch([prev EXCEPT !.observed = o],
                     [last.patch EXCEPT !.utxos = Reflagged(@, f),
                                        !.withdrawals = Reflagged(@, f)]) :
        o \in {[s \in Species |-> a] : a \in SUBSET Addresses}, f \in BOOLEAN}

PolicySet == last.op \in {"setZkAddressesToObserve", "setAddressesToObserve"}

\* C27: the observation policy decides only which nodes are kept.  A call of
\* setZkAddressesToObserve or setAddressesToObserve changes no root, index or
\* siblings, no TreeNode row and no cached node; and a Grove that applies the
\* same patch under other observed addresses and other shouldTrack flags gets
\* the same root, index and siblings in both trees, the same outcome and the
\* same snapshot, which is the one of the leaves appended, whatever was kept.
C27_PolicyAffectsRetentionOnly ==
    /\ PolicySet =>
          /\ utxoTree = prev.utxoTree /\ withdrawalTree = prev.withdrawalTree
          /\ nullifierTree = prev.nullifierTree
          /\ treeCache = prev.treeCache
          /\ db = prev.db /\ tx = prev.tx
    /\ last.op = "applyGrovePatch" =>
          \A g \in OtherPolicies :
             /\ g.err = last.err
             /\ Frontier(g.utxoTree) = Frontier(utxoTree)
             /\ Frontier(g.withdrawalTree) = Frontier(withdrawalTree)
             /\ g.utxoTree.leaves = utxoTree.leaves
             /\ last.err = "none" => getSnapshot(g) = getSnapshot(Grove)
    /\ (utxoTree # NoTree /\ withdrawalTree # NoTree) =>
          /\ utxoTree.index = Len(utxoTree.leaves)
          /\ withdrawalTree.index = Len(withdrawalTree.leaves)
          /\ utxoTree.root = RefRoot(UtxoTreeDepth, utxoTree.leaves)
          /\ withdrawalTree.root = RefRoot(WithdrawalTreeDepth, withdrawalTree.leaves)

\* a patch was applied while the UTXO tree observed an address, to a Grove
\* that had kept nodes before; its leaves asked for nothing themselves, and
\* the observed address made the Grove keep nodes another policy drops
C27_Witness ==
    /\ last.op = "applyGrovePatch"
    /\ last.err = "none"
    /\ prev.observed["UTXO"] # {}
    /\ prev.utxoTree.index > 0
    /\ Len(last.patch.utxos) > 0
    /\ \A i \in DOMAIN last.patch.utxos : ~last.patch.utxos[i].shouldTrack
    /\ \E g \in OtherPolicies : g.tx.treeNode # tx.treeNode

\* the policy was replaced on a Grove whose frontier is past the genesis
C27_PolicySetWitness ==
    /\ PolicySet
    /\ last.err = "none"
    /\ prev.utxoTree.index > 0
    /\ observed # prev.observed

====
